---- MODULE Spec2Model ----
(***************************************************************************)
(* Model of the disk-image lifecycle of mosen/autonbi (src/hdiutil.py):    *)
(* the Dmg object, the MountedDMG context manager and the NBI bundle that  *)
(* hands out MountedDMG handles; and of the Dmg class that the AutoNBI.py  *)
(* script defines for itself.  Every external hdiutil invocation is an     *)
(* input of the action that issues it: its exit status, its stderr text    *)
(* and, for attach, the system-entities of the property list it prints.    *)
(*                                                                         *)
(* Spec         the Dmg objects and the helper functions of AutoNBI.py     *)
(* PayloadSpec  processframeworkpayload with parse_pbzx on one Payload     *)
(* ModifySpec   processNBI.modify on one NetInstall image                  *)
(* ContentSpec  the custom folder and the frameworks inside modify         *)
(* DecompressSpec  decompress on one xz file, with liblzma as its input   *)
(***************************************************************************)
EXTENDS Integers, Sequences, FiniteSets, TLC

VARIABLES
    prog,       \* the code the process runs: the hdiutil module or AutoNBI.py
    dmg,        \* hdiutil.Dmg instance: _path, _mounted, _mount_points, _shadow
    script_dmg, \* the Dmg of AutoNBI.py: _path, _mount_points, _shadow
    ctx,        \* the MountedDMG handle most recently created
    op,         \* name of the method that ran last
    cmds,       \* the hdiutil runs of that method, in order: command, outcome
    err,        \* the exception that method raised, or NoError
    ret,        \* the value that method returned
    attaches,   \* history: Dmg.mount attaches since the last completed unmount
    shadow_mounted, \* history: attached with -shadow and shadow not discarded
    pin,        \* processframeworkpayload: what the payload was built from
    fs,         \* processframeworkpayload: the files of TMPDIR, path -> bytes
    pz,         \* processframeworkpayload: position and locals of the run
    perr,       \* processframeworkpayload: the exception that ended the run
    plog,       \* history: what the assembly loop appended, per fragment
    mrun,       \* processNBI.modify: position, options, files, mount point
    mlog,       \* history: the commands and file operations of modify
    merr,       \* processNBI.modify: the exception that ended the run
    crun,       \* content block of modify: position, options, loop indices
    cfs,        \* content block: the entries at processdir and at its target
    clog,       \* history: the file operations and commands of the block
    cerr,       \* content block: the exception that ended it
    dz,         \* decompress: position, locals, the stream and the decoder
    dlog,       \* history: the calls of lzma_code, one entry per pass
    derr,       \* decompress: the exception that ended the call
    ev,         \* environment.py: position, inputs and locals of the calls
    elog,       \* history: the hdiutil commands version_info has run
    eerr,       \* environment.py: the exception that reached the caller
    hshadow     \* history: the shadow file of the writable handle that
                \* Dmg.mounted made last, None once another method ran

vars == <<prog, dmg, script_dmg, ctx, op, cmds, err, ret, attaches, shadow_mounted>>
pvars == <<pin, fs, pz, perr, plog>>
mvars == <<mrun, mlog, merr>>
cvars == <<crun, cfs, clog, cerr>>
dvars == <<dz, dlog, derr>>
evars == <<ev, elog, eerr>>
hvars == <<hshadow>>

-----------------------------------------------------------------------------
(* Bounds of the model *)

\* longest system-entities list a successful attach reports
MaxEntities == 2
\* longest stdout (in characters) of 'hdiutil resize -limits'
MaxLimitsLen == 3
\* most chunks a pbzx container holds
MaxChunks == 2
\* the size of the two buffers of decompress (65535 in the source)
BUFSIZ == 2
\* longest xz file decompress is handed, and longest content it decodes to
MaxInputLen == 3
MaxOutputLen == 3

-----------------------------------------------------------------------------
(* Python values *)

None == "None"

\* a list-or-None value (Dmg._mount_points starts as None, not as a list)
PyNone == [is_none |-> TRUE, items |-> <<>>]
PyList(s) == [is_none |-> FALSE, items |-> s]

NoError == [type |-> "None"]
NoValue == [type |-> "None"]
NoCtx == [phase |-> "none"]

HDIUTIL == "/usr/bin/hdiutil"

\* the NetInstall.dmg of the bundle, NBI._dmg_path
NBI_PATH == "/nbi"
NBI_DMG_PATH == NBI_PATH \o "/" \o "NetInstall.dmg"

\* what mkdtemp() hands MountedDMG.__init__
MKDTEMP == "/tmp/tmpdir"

ExitCodes == {0, 1}
FailCodes == ExitCodes \ {0}
StderrTexts == {"hdiutil: failed - Resource busy"}

\* entities of the attach plist: only some carry a 'mount-point' key
SystemEntities ==
    { [dev_entry |-> "/dev/disk2"],
      [dev_entry |-> "/dev/disk2s1", mount_point |-> "/tmp/dmg.A"],
      [dev_entry |-> "/dev/disk2s2", mount_point |-> "/tmp/dmg.B"] }

\* arguments the callers pass
ConvertOutputs == {"/tmp/work/NetInstall"}
ConvertFormats == {"UDSP", "UDRW"}
ShadowFiles == {"/tmp/work/custom.shadow"}

MountPointNames == {"/tmp/dmg.A", "/tmp/dmg.B"}

RECURSIVE SeqsUpTo(_, _)
SeqsUpTo(S, n) ==
    IF n = 0 THEN {<<>>}
    ELSE LET shorter == SeqsUpTo(S, n - 1)
         IN  shorter \cup {Append(s, x) : s \in shorter, x \in S}

Range(s) == {s[i] : i \in DOMAIN s}

\* What a successful attach prints: each device entry once, and at least one
\* of them mounted (without -nomount, hdiutil attach exits non-zero with
\* "no mountable file systems" when it could mount nothing).
Plists ==
    {e \in SeqsUpTo(SystemEntities, MaxEntities) :
        /\ Cardinality(Range(e)) = Len(e)
        /\ \E i \in DOMAIN e : "mount_point" \in DOMAIN e[i]}

\* outcomes of one 'hdiutil attach -plist': (returncode, stdout, stderr)
AttachOutcomes ==
    { [returncode |-> 0, plist |-> e, stdout |-> "plist", stderr |-> ""] :
          e \in Plists }
    \cup
    { [returncode |-> r, plist |-> <<>>, stdout |-> "", stderr |-> s] :
          r \in FailCodes, s \in StderrTexts }

\* outcomes of a command whose stdout is not parsed
ProcOutcomes ==
    { [returncode |-> 0, stdout |-> "", stderr |-> ""] }
    \cup
    { [returncode |-> r, stdout |-> "", stderr |-> s] :
          r \in FailCodes, s \in StderrTexts }

-----------------------------------------------------------------------------
(* HDIUtilError, src/hdiutil.py:10-27 *)

HDIUtilError(message, return_code, command, stdout, stderr) ==
    [type |-> "HDIUtilError", message |-> message, return_code |-> return_code,
     command |-> command, stdout |-> stdout, stderr |-> stderr]

PyError(type) == [type |-> type]

\* one subprocess run: the argument list and what the process gave back
Run(command, out) == [command |-> command, out |-> out]

-----------------------------------------------------------------------------
(* Dmg, src/hdiutil.py:30-240 *)

\* No with-statement is open.  The body of a with-statement is represented by
\* its outcome only: MountedDMG shares no field with the Dmg, so the methods
\* of the Dmg are taken between with-statements, not inside their bodies.
Idle == prog = "hdiutil" /\ ctx.phase = "none"

\* Dmg.__init__
NewDmg(path) ==
    [path |-> path, mounted |-> FALSE, mount_points |-> PyNone, shadow |-> None]

\* os.path.join(os.path.dirname(p), os.path.basename(p) + '.shadow')
ShadowPathFor(path) == path \o ".shadow"

\* mutant: the comprehension builds the list back to front
RECURSIVE MountPointsOf_Reversed(_)
MountPointsOf_Reversed(entities) ==
    IF entities = <<>> THEN <<>>
    ELSE LET entity == Head(entities)
             rest == MountPointsOf_Reversed(Tail(entities))
         IN  IF "mount_point" \in DOMAIN entity
             THEN rest \o <<entity.mount_point>>
             ELSE rest

\* [entity['mount-point'] for entity in plist['system-entities']
\*                        if 'mount-point' in entity]
RECURSIVE MountPointsOf(_)
MountPointsOf(entities) ==
    IF entities = <<>> THEN <<>>
    ELSE LET entity == Head(entities)
             rest == MountPointsOf(Tail(entities))
         IN  IF "mount_point" \in DOMAIN entity
             THEN <<entity.mount_point>> \o rest
             ELSE rest

AttachCommand(path) ==
    <<HDIUTIL, "attach", path, "-mountrandom", "/tmp", "-nobrowse", "-plist",
      "-owners", "on">>

Saturate(n) == IF n < 2 THEN n + 1 ELSE n

\* Dmg.mount(shadow)
Mount(shadow, out) ==
    LET shadow_path == ShadowPathFor(dmg.path)
        command == AttachCommand(dmg.path)
                     \o (IF shadow THEN <<"-shadow", shadow_path>> ELSE <<>>)
        self1 == IF shadow THEN [dmg EXCEPT !.shadow = shadow_path] ELSE dmg
    IN  /\ op' = "mount"
        /\ cmds' = <<Run(command, out)>>
        /\ ret' = NoValue
        /\ IF out.returncode # 0
           THEN /\ err' = HDIUtilError("Failed to mount dmg", out.returncode,
                                       command, out.stdout, out.stderr)
                /\ dmg' = self1
                /\ UNCHANGED <<attaches, shadow_mounted>>
           ELSE /\ err' = NoError
                /\ dmg' = [self1 EXCEPT
                             !.mount_points = PyList(MountPointsOf(out.plist)),
                             !.mounted = TRUE]
                /\ attaches' = Saturate(attaches)
                /\ shadow_mounted' = (shadow_mounted \/ shadow)
        /\ UNCHANGED <<prog, script_dmg, ctx>>

\* mutant: detach names the -mountRandom root, not the mount point under it
DetachCommand_MountRoot(mount_point) == <<HDIUTIL, "detach", MKDTEMP>>

DetachCommand(mount_point) == <<HDIUTIL, "detach", mount_point>>
\* mutant: the retry repeats the polite command
ForceDetachCommand_NoForce(mount_point) ==
    <<"/usr/bin/hdiutil", "detach", mount_point>>

ForceDetachCommand(mount_point) ==
    <<"/usr/bin/hdiutil", "detach", "-force", mount_point>>

\* subprocess.call(command): only the return code comes back
Call(command, return_code) == Run(command, [returncode |-> return_code])

\* Dmg.unmount(mount_point)
Unmount(mount_point_arg, polite, force_rc) ==
    /\ op' = "unmount"
    /\ ret' = NoValue
    /\ UNCHANGED <<prog, script_dmg, ctx, shadow_mounted>>
    /\ IF mount_point_arg = None /\ dmg.mount_points.is_none
       THEN \* None[0]
            /\ err' = PyError("TypeError")
            /\ cmds' = <<>>
            /\ UNCHANGED <<dmg, attaches>>
       ELSE IF mount_point_arg = None /\ dmg.mount_points.items = <<>>
       THEN \* [][0]
            /\ err' = PyError("IndexError")
            /\ cmds' = <<>>
            /\ UNCHANGED <<dmg, attaches>>
       ELSE LET mount_point == IF mount_point_arg = None
                               THEN dmg.mount_points.items[1]
                               ELSE mount_point_arg
                command == DetachCommand(mount_point)
                forced == ForceDetachCommand(mount_point)
            IN  IF polite.returncode = 0
                THEN /\ cmds' = <<Run(command, polite)>>
                     /\ err' = NoError
                     /\ dmg' = [dmg EXCEPT !.mounted = FALSE]
                     /\ attaches' = 0
                ELSE IF force_rc = 0
                THEN /\ cmds' = <<Run(command, polite),
                                  Call(forced, force_rc)>>
                     /\ err' = NoError
                     /\ dmg' = [dmg EXCEPT !.mounted = FALSE]
                     /\ attaches' = 0
                ELSE /\ cmds' = <<Run(command, polite),
                                  Call(forced, force_rc)>>
                     /\ err' = HDIUtilError("Failed to unmount dmg", force_rc,
                                            forced, None, None)
                     /\ UNCHANGED <<prog, script_dmg, dmg, attaches>>

\* mutant: convert passes the shadow beside the image, not the current one
ConvertCommand_DerivedShadow(self, output, fmt) ==
    IF self.shadow # None
    THEN <<HDIUTIL, "convert", "-format", fmt, "-o", output,
           "-shadow", ShadowPathFor(self.path), self.path>>
    ELSE <<HDIUTIL, "convert", "-format", fmt, "-o", output, self.path>>

\* 'if self.shadow:' -- a shadow path is None or a non-empty string
ConvertCommand(self, output, fmt) ==
    IF self.shadow # None
    THEN <<HDIUTIL, "convert", "-format", fmt, "-o", output,
           "-shadow", self.shadow, self.path>>
    ELSE <<HDIUTIL, "convert", "-format", fmt, "-o", output, self.path>>

\* mutant: convert hands back the receiver's fields under the new path
ConvertReturn_Receiver(self, output) == [self EXCEPT !.path = output]

\* return Dmg(output)
ConvertReturn(self, output) == NewDmg(output)

\* Dmg.convert(output, fmt)
Convert(output, fmt, out) ==
    LET command == ConvertCommand(dmg, output, fmt)
    IN  /\ op' = "convert"
        /\ cmds' = <<Run(command, out)>>
        /\ IF out.returncode # 0
           THEN /\ err' = HDIUtilError("Error attempting to convert dmg",
                                       out.returncode, command, out.stdout,
                                       out.stderr)
                /\ ret' = NoValue
           ELSE /\ err' = NoError
                /\ ret' = [type |-> "Dmg", value |-> ConvertReturn(dmg, output)]
        /\ UNCHANGED <<prog, script_dmg, dmg, ctx, attaches, shadow_mounted>>

\* mutant: the sectors value is passed as a size
ResizeCommand_SizeForSectors(self, shadow_file, size, sectors) ==
    <<HDIUTIL, "resize">>
      \o (IF size # None THEN <<"-size", size>> ELSE <<>>)
      \o (IF sectors # None THEN <<"-size", sectors>> ELSE <<>>)
      \o (IF shadow_file # None THEN <<"-shadow", shadow_file>> ELSE <<>>)
      \o <<self.path>>

ResizeCommand(self, shadow_file, size, sectors) ==
    <<HDIUTIL, "resize">>
      \o (IF size # None THEN <<"-size", size>> ELSE <<>>)
      \o (IF sectors # None THEN <<"-sectors", sectors>> ELSE <<>>)
      \o (IF shadow_file # None THEN <<"-shadow", shadow_file>> ELSE <<>>)
      \o <<self.path>>

\* Dmg.resize(shadow_file, size, sectors) run on self: the commands issued,
\* the exception raised and self afterwards
ResizeCall(self, shadow_file, size, sectors, out) ==
    LET command == ResizeCommand(self, shadow_file, size, sectors)
    IN  [cmds |-> <<Run(command, out)>>,
         self |-> IF shadow_file # None
                  THEN [self EXCEPT !.shadow = shadow_file]
                  ELSE self,
         err  |-> IF out.returncode # 0
                  THEN HDIUtilError("Error attempting to resize dmg",
                                    out.returncode, command, out.stdout,
                                    out.stderr)
                  ELSE NoError]

Resize(shadow_file, size, sectors, out) ==
    LET call == ResizeCall(dmg, shadow_file, size, sectors, out)
    IN  /\ op' = "resize"
        /\ cmds' = call.cmds
        /\ err' = call.err
        /\ ret' = NoValue
        /\ dmg' = call.self
        /\ UNCHANGED <<prog, script_dmg, ctx, attaches, shadow_mounted>>

\* str.split(sep) on a string given as its sequence of characters
RECURSIVE Split(_, _)
Split(s, sep) ==
    IF s = <<>> THEN << <<>> >>
    ELSE LET rest == Split(Tail(s), sep)
         IN  IF Head(s) = sep
             THEN << <<>> >> \o rest
             ELSE << <<Head(s)>> \o Head(rest) >> \o Tail(rest)

TAB == "\t"
LimitsChars == {"2", TAB}

\* outcomes of 'hdiutil resize -limits': stdout is tab-delimited text
LimitsOutcomes ==
    { [returncode |-> 0, stdout |-> s, stderr |-> ""] :
          s \in SeqsUpTo(LimitsChars, MaxLimitsLen) }
    \cup
    { [returncode |-> r, stdout |-> <<>>, stderr |-> s] :
          r \in FailCodes, s \in StderrTexts }

LimitsCommand(self) == <<HDIUTIL, "resize", "-limits", self.path>>

\* Dmg.resize_limits() run on self
ResizeLimitsCall(self, out) ==
    LET command == LimitsCommand(self)
    IN  [cmds |-> <<Run(command, out)>>,
         err  |-> IF out.returncode # 0
                  THEN HDIUtilError("Error attempting to get resize limits",
                                    out.returncode, command, out.stdout,
                                    out.stderr)
                  ELSE NoError,
         ret  |-> IF out.returncode # 0
                  THEN NoValue
                  ELSE [type |-> "list", value |-> Split(out.stdout, TAB)]]

ResizeLimits(out) ==
    LET call == ResizeLimitsCall(dmg, out)
    IN  /\ op' = "resize_limits"
        /\ cmds' = call.cmds
        /\ err' = call.err
        /\ ret' = call.ret
        /\ UNCHANGED <<prog, script_dmg, dmg, ctx, attaches, shadow_mounted>>

\* Dmg.shrink()
Shrink(limits_out, resize_out) ==
    LET limits == ResizeLimitsCall(dmg, limits_out)
        resized == ResizeCall(dmg, None, None, "min", resize_out)
    IN  /\ op' = "shrink"
        /\ ret' = NoValue
        /\ UNCHANGED <<prog, script_dmg, ctx, attaches, shadow_mounted>>
        /\ IF limits.err # NoError
           THEN /\ cmds' = limits.cmds
                /\ err' = limits.err
                /\ UNCHANGED dmg
           ELSE IF Len(limits.ret.value) = 0
           THEN \* minimum_size = limits[0]
                /\ cmds' = limits.cmds
                /\ err' = PyError("IndexError")
                /\ UNCHANGED dmg
           ELSE /\ cmds' = limits.cmds \o resized.cmds
                /\ err' = resized.err
                /\ dmg' = resized.self

\* Dmg.shadow setter
SetShadow(value) ==
    /\ op' = "shadow.setter"
    /\ dmg' = [dmg EXCEPT !.shadow = value]
    /\ shadow_mounted' = IF value = None THEN FALSE ELSE shadow_mounted
    /\ cmds' = <<>>
    /\ err' = NoError
    /\ ret' = NoValue
    /\ UNCHANGED <<prog, script_dmg, ctx, attaches>>

-----------------------------------------------------------------------------
(* MountedDMG, src/hdiutil.py:244-341, and the methods that create it *)

\* MountedDMG.__init__(dmg_path, mountpoint, use_shadow, shadow_path, unmount)
NewMountedDMG(dmg_path, mountpoint, use_shadow, shadow_path, unmount) ==
    [phase |-> "new",
     dmg_path |-> dmg_path,
     shadow_path |-> IF use_shadow /\ shadow_path = None
                     THEN ShadowPathFor(dmg_path)
                     ELSE IF use_shadow THEN shadow_path
                     ELSE None,
     mount_points |-> <<>>,
     mountpoint |-> IF mountpoint = None THEN MKDTEMP ELSE mountpoint,
     unmount |-> unmount]

\* Dmg.mounted(writable)
DmgMounted(writable) ==
    /\ op' = "Dmg.mounted"
    /\ ctx' = NewMountedDMG(dmg.path, None, writable, dmg.shadow, TRUE)
    /\ hshadow' = ctx'.shadow_path
    /\ cmds' = <<>>
    /\ err' = NoError
    /\ ret' = [type |-> "MountedDMG"]
    /\ UNCHANGED <<prog, script_dmg, dmg, attaches, shadow_mounted>>

\* NBI.mounted(writable, unmount)
NBIMounted(writable, unmount) ==
    /\ op' = "NBI.mounted"
    /\ ctx' = NewMountedDMG(NBI_DMG_PATH, None, writable, None, unmount)
    /\ hshadow' = None
    /\ cmds' = <<>>
    /\ err' = NoError
    /\ ret' = [type |-> "MountedDMG"]
    /\ UNCHANGED <<prog, script_dmg, dmg, attaches, shadow_mounted>>

CtxAttachCommand(self) ==
    <<HDIUTIL, "attach", self.dmg_path, "-mountRandom", self.mountpoint,
      "-nobrowse", "-plist", "-owners", "on">>
      \o (IF self.shadow_path # None THEN <<"-shadow", self.shadow_path>>
          ELSE <<>>)

\* MountedDMG.__enter__()
Enter(out) ==
    LET command == CtxAttachCommand(ctx)
    IN  /\ ctx.phase = "new"
        /\ op' = "__enter__"
        /\ cmds' = <<Run(command, out)>>
        /\ IF out.returncode # 0
           THEN /\ err' = HDIUtilError("Error attempting to attach dmg",
                                       out.returncode, command, out.stdout,
                                       out.stderr)
                /\ ret' = NoValue
                /\ ctx' = NoCtx
                /\ UNCHANGED shadow_mounted
           ELSE /\ err' = NoError
                /\ ctx' = [ctx EXCEPT !.phase = "entered",
                             !.mount_points = MountPointsOf(out.plist)]
                /\ ret' = [type |-> "tuple",
                           value |-> <<MountPointsOf(out.plist), ctx.shadow_path>>]
                /\ shadow_mounted' = (shadow_mounted \/ ctx.shadow_path # None)
        /\ UNCHANGED <<prog, script_dmg, dmg, attaches, hshadow>>

\* MountedDMG.__exit__(*args), called when the body of the with-statement
\* ends: exc is the exception the body raised, or NoError.  __exit__ returns
\* None, so an exception of the body propagates unless __exit__ raises.
\* The handle is a temporary of the with-statement and is gone afterwards.
Exit(exc, polite, force_rc) ==
    /\ ctx.phase = "entered"
    /\ op' = "__exit__"
    /\ ret' = NoValue
    /\ ctx' = NoCtx
    /\ UNCHANGED <<prog, script_dmg, dmg, attaches, shadow_mounted, hshadow>>
    /\ IF ~ctx.unmount
       THEN /\ cmds' = <<>>
            /\ err' = exc
       ELSE IF ctx.mount_points = <<>>
       THEN \* self._mount_points[0]
            /\ cmds' = <<>>
            /\ err' = PyError("IndexError")
       ELSE LET mount_point == ctx.mount_points[1]
                command == DetachCommand(mount_point)
                forced == ForceDetachCommand(mount_point)
            IN  IF polite.returncode = 0
                THEN /\ cmds' = <<Run(command, polite)>>
                     /\ err' = exc
                ELSE IF force_rc = 0
                THEN /\ cmds' = <<Run(command, polite),
                                  Call(forced, force_rc)>>
                     /\ err' = exc
                ELSE /\ cmds' = <<Run(command, polite),
                                  Call(forced, force_rc)>>
                     /\ err' = HDIUtilError("Failed to unmount dmg", force_rc,
                                            forced, None, None)

-----------------------------------------------------------------------------
(* Dmg of the AutoNBI.py script, src/AutoNBI.py:555-619 *)

\* the installer image handed to InstallSource
INSTALLER_PATH == "/install/InstallESD.dmg"
\* the script's global TMPDIR
TMPDIR == "/tmp/autonbi"

\* Dmg.__init__
NewScriptDmg(path) ==
    [path |-> path, mount_points |-> PyNone, shadow |-> None]

\* Dmg.mount(shadow)
ScriptMount(shadow, out) ==
    LET command == <<HDIUTIL, "attach", script_dmg.path, "-mountRandom",
                     TMPDIR, "-nobrowse", "-plist", "-owners", "on">>
                     \o (IF shadow
                         THEN <<"-shadow", ShadowPathFor(script_dmg.path)>>
                         ELSE <<>>)
    IN  /\ prog = "AutoNBI"
        /\ op' = "AutoNBI.Dmg.mount"
        /\ cmds' = <<Run(command, out)>>
        /\ ret' = NoValue
        /\ IF out.returncode # 0
           THEN /\ err' = [type |-> "IOError", stderr |-> out.stderr,
                           path |-> script_dmg.path]
                /\ UNCHANGED script_dmg
           ELSE /\ err' = NoError
                /\ script_dmg' = [script_dmg EXCEPT !.mount_points =
                                     PyList(MountPointsOf(out.plist))]
        /\ UNCHANGED <<prog, dmg, ctx, attaches, shadow_mounted>>

\* Dmg.convert(fmt, output): run() reports a failed command on stderr and
\* returns, so convert returns Dmg(output) whatever the exit status
ScriptConvert(fmt, output, out) ==
    LET command == ConvertCommand(script_dmg, output, fmt)
    IN  /\ prog = "AutoNBI"
        /\ op' = "AutoNBI.Dmg.convert"
        /\ cmds' = <<Run(command, out)>>
        /\ err' = NoError
        /\ ret' = [type |-> "Dmg", value |-> NewScriptDmg(output)]
        /\ UNCHANGED <<prog, dmg, script_dmg, ctx, attaches, shadow_mounted>>

-----------------------------------------------------------------------------
(* The helper functions of AutoNBI.py, src/AutoNBI.py:128-201, 475-507 *)

\* where makerw() finds the NetInstall volume mounted
NBI_MOUNT == TMPDIR \o "/dmg.NBI"

\* os.path.splitext(path)[0] for the image paths the helpers are handed
SplitExtRoot(path) ==
    IF path = NBI_DMG_PATH THEN NBI_PATH \o "/" \o "NetInstall"
    ELSE IF path = INSTALLER_PATH THEN "/install/InstallESD"
    ELSE path

\* cmd of mountdmg(dmgpath, use_shadow)
MountDmgCommand(dmgpath, use_shadow) ==
    <<HDIUTIL, "attach", dmgpath, "-mountRandom", TMPDIR, "-nobrowse",
      "-plist", "-owners", "on">>
    \o (IF use_shadow THEN <<"-shadow", ShadowPathFor(dmgpath)>> ELSE <<>>)

\* mountdmg returns (mountpoints, shadowpath) whatever the exit status
MountDmgReturn(dmgpath, use_shadow, out) ==
    [type |-> "tuple",
     mountpoints |-> IF out.stdout # "" THEN MountPointsOf(out.plist) ELSE <<>>,
     shadowpath |-> IF use_shadow THEN ShadowPathFor(dmgpath) ELSE None]

\* the hdiutil runs of unmountdmg(mountpoint): a polite detach and, when
\* that exits non-zero, a forced one
UnmountDmgRuns(mountpoint, polite, force_rc) ==
    <<Run(<<HDIUTIL, "detach", mountpoint>>, polite)>>
    \o (IF polite.returncode # 0
        THEN <<Call(<<HDIUTIL, "detach", "-force", mountpoint>>, force_rc)>>
        ELSE <<>>)

\* cmd of convertdmg(dmgpath, nbishadow)
ConvertDmgCommand(dmgpath, nbishadow) ==
    <<HDIUTIL, "convert", dmgpath, "-format", "UDSP", "-shadow", nbishadow,
      "-o", SplitExtRoot(dmgpath)>>

\* convertdmg returns the name hdiutil gives the sparse image
ConvertDmgReturn(dmgpath) == SplitExtRoot(dmgpath) \o ".sparseimage"

\* attach_dmg = lambda shadow_file, attach_source, tmp: [...]
attach_dmg(shadow_file, attach_source, tmp) ==
    <<HDIUTIL, "attach", "-shadow", shadow_file, "-mountRandom", tmp,
      "-nobrowse", "-plist", "-owners", "on", attach_source>>

\* detach_dmg = lambda mountpoint: [...]
detach_dmg(mountpoint) == <<HDIUTIL, "detach", "-force", mountpoint>>

\* mountdmg(dmgpath, use_shadow)
MountDmg(dmgpath, use_shadow, out) ==
    /\ prog = "AutoNBI"
    /\ op' = "mountdmg"
    /\ cmds' = <<Run(MountDmgCommand(dmgpath, use_shadow), out)>>
    /\ err' = NoError
    /\ ret' = MountDmgReturn(dmgpath, use_shadow, out)
    /\ UNCHANGED <<prog, dmg, script_dmg, ctx, attaches, shadow_mounted>>

\* unmountdmg(mountpoint)
UnmountDmg(mountpoint, polite, force_rc) ==
    /\ prog = "AutoNBI"
    /\ op' = "unmountdmg"
    /\ cmds' = UnmountDmgRuns(mountpoint, polite, force_rc)
    /\ err' = NoError
    /\ ret' = NoValue
    /\ UNCHANGED <<prog, dmg, script_dmg, ctx, attaches, shadow_mounted>>

\* convertdmg(dmgpath, nbishadow)
ConvertDmg(dmgpath, nbishadow, out) ==
    /\ prog = "AutoNBI"
    /\ op' = "convertdmg"
    /\ cmds' = <<Run(ConvertDmgCommand(dmgpath, nbishadow), out)>>
    /\ err' = NoError
    /\ ret' = [type |-> "str", value |-> ConvertDmgReturn(dmgpath)]
    /\ UNCHANGED <<prog, dmg, script_dmg, ctx, attaches, shadow_mounted>>

\* run(cmd, cwd): the content of stdout, whatever the exit status
ScriptRun(cmd, out) ==
    /\ prog = "AutoNBI"
    /\ op' = "run"
    /\ cmds' = <<Run(cmd, out)>>
    /\ err' = NoError
    /\ ret' = [type |-> "str", value |-> out.stdout]
    /\ UNCHANGED <<prog, dmg, script_dmg, ctx, attaches, shadow_mounted>>

-----------------------------------------------------------------------------
(* Bytes, the pbzx container and the xz streams inside it,                 *)
(* src/processnbi.py:192-260                                               *)

\* 'pbzx', the container magic parse_pbzx compares the first 4 bytes with
PBZX_MAGIC == <<112, 98, 122, 120>>
\* '\xfd7zXZ\x00', the magic parse_pbzx looks for at the head of a chunk
XZ_MAGIC == <<253, 55, 122, 88, 90, 0>>
\* 'YZ', the trailing marker parse_pbzx compares the tail of a chunk with
XZ_FOOTER == <<89, 90>>

\* contents a chunk is built from: shorter and longer than the 6-byte
\* lookahead of parse_pbzx; none begins with XZ_MAGIC
ChunkContents == {<<1>>, <<2, 1>>, <<1, 2, 2, 1, 2, 1, 1>>}
ChunkKinds == {"raw", "xz"}
\* how a container may be damaged: not at all, in its first 4 bytes, in the
\* trailing marker of compressed chunk k, in the body of compressed chunk k
Faults == {"none", "magic", "footer", "body"}

\* struct.pack('>Q', n) for n < 2^32
Pack(n) ==
    <<0, 0, 0, 0, (n \div 16777216) % 256, (n \div 65536) % 256,
      (n \div 256) % 256, n % 256>>

\* struct.unpack('>Q', b)[0]
RECURSIVE Unpack(_)
Unpack(b) ==
    IF b = <<>> THEN 0
    ELSE 256 * Unpack(SubSeq(b, 1, Len(b) - 1)) + b[Len(b)]

\* flags & (1 << 24)
Bit24_Bit25(flags) == (flags \div 33554432) % 2 = 1

Bit24(flags) == (flags \div 16777216) % 2 = 1

\* f.read(n) at offset pos of a file holding data
Read(data, pos, n) ==
    IF pos >= Len(data) THEN <<>>
    ELSE SubSeq(data, pos + 1, IF pos + n > Len(data) THEN Len(data) ELSE pos + n)

\* seekread(f, offset, length) with relative=True: seek from the current
\* position when an offset is given (0 stands for offset=None, which leaves
\* the position as a seek by 0 does), then read; None when length is 0
SeekRead(data, pos, offset, length) ==
    LET at == pos + offset
        got == IF length = 0 THEN <<>> ELSE Read(data, at, length)
    IN  [pos |-> at + Len(got), is_none |-> length = 0, bytes |-> got,
         prev |-> pos, at |-> at]

\* what one seekread call of the given source line did to the position of f:
\* where f stood, where the seek put it, where the read left it
Moved(line, sr) == [line |-> line, prev |-> sr.prev, at |-> sr.at, to |-> sr.pos]

\* the body of an xz stream for a content: every byte is transformed
RECURSIVE XzBody(_)
XzBody(content) ==
    IF content = <<>> THEN <<>>
    ELSE <<255 - Head(content)>> \o XzBody(Tail(content))

\* one self-contained xz stream: magic, size, transformed bytes, footer
Compress(content, fault) ==
    XZ_MAGIC
    \o <<IF fault = "body" THEN Len(content) + 1 ELSE Len(content)>>
    \o XzBody(content)
    \o (IF fault = "footer" THEN <<89, 89>> ELSE XZ_FOOTER)

\* what xz -d and lzma_stream_decoder(LZMA_CONCATENATED) make of a file:
\* the contents of its streams one after the other, or a failure
RECURSIVE Decode(_)
Decode(bytes) ==
    IF bytes = <<>> THEN [ok |-> TRUE, data |-> <<>>]
    ELSE IF Len(bytes) < 9 \/ SubSeq(bytes, 1, 6) # XZ_MAGIC
    THEN [ok |-> FALSE, data |-> <<>>]
    ELSE LET n == bytes[7]
         IN  IF Len(bytes) < 9 + n
                \/ SubSeq(bytes, 8 + n, 9 + n) # XZ_FOOTER
             THEN [ok |-> FALSE, data |-> <<>>]
             ELSE LET rest == Decode(SubSeq(bytes, 10 + n, Len(bytes)))
                  IN  [ok |-> rest.ok,
                       data |-> XzBody(SubSeq(bytes, 7 + 1, 7 + n))
                                \o rest.data]

\* the bytes a chunk occupies in the container after its two 8-byte words
ChunkPayload(chunk, fault) ==
    IF chunk.kind = "xz" THEN Compress(chunk.data, fault) ELSE chunk.data

\* the synthetic encoder: every chunk is a flags word whose bit 24 says
\* that another chunk follows, a length word and the payload
RECURSIVE EncodeChunks(_, _, _, _)
EncodeChunks(chunks, i, fault, k) ==
    IF i > Len(chunks) THEN <<>>
    ELSE LET payload == ChunkPayload(chunks[i], IF i = k THEN fault ELSE "none")
         IN  Pack(IF i < Len(chunks) THEN 16777216 ELSE 0)
             \o Pack(Len(payload)) \o payload
             \o EncodeChunks(chunks, i + 1, fault, k)

Encode(chunks, fault, k) ==
    (IF fault = "magic" THEN <<112, 98, 122, 121>> ELSE PBZX_MAGIC)
    \o Pack(IF Len(chunks) > 0 THEN 16777216 ELSE 0)
    \o EncodeChunks(chunks, 1, fault, k)

\* the uncompressed contents of the chunks, in order
RECURSIVE Contents(_)
Contents(chunks) ==
    IF chunks = <<>> THEN <<>>
    ELSE Head(chunks).data \o Contents(Tail(chunks))

-----------------------------------------------------------------------------
(* parse_pbzx and processframeworkpayload, src/processnbi.py:199-303.      *)
(* A path is its stem, which starts with '/', and the characters after it. *)

CPIO == <<".", "c", "p", "i", "o">>
CPIO_XZ == <<".", "c", "p", "i", "o", ".", "x", "z">>

Digit(n) == <<"0", "1", "2", "3", "4", "5", "6", "7", "8", "9">>[n + 1]
\* '%02d' % section, for the sections a bounded container reaches
TwoDigits(n) == Digit((n \div 10) % 10) \o Digit(n % 10)

\* os.path.join(TMPDIR, 'Payload') and payloadsource + '-' + payload + '.cpio.xz'
PayloadSource == [stem |-> TMPDIR \o "/Payload", ext |-> <<>>]
CpioArchive == [stem |-> TMPDIR \o "/Payload-Essentials", ext |-> CPIO_XZ]

\* '%s.part%02d.cpio.xz' % (pbzx_path, section) and '%s.part%02d.cpio'
PartPath_NoSection(pbzx_path, section, ext) ==
    [stem |-> pbzx_path.stem \o ".part" \o TwoDigits(0), ext |-> ext]

PartPath(pbzx_path, section, ext) ==
    [stem |-> pbzx_path.stem \o ".part" \o TwoDigits(section), ext |-> ext]

\* s.strip(chars) on the characters after the stem: the stem starts with '/'
\* and its last character is a digit, so the strip stops at both of them
RECURSIVE RStrip(_, _)
RStrip(s, chars) ==
    IF s # <<>> /\ s[Len(s)] \in chars
    THEN RStrip(SubSeq(s, 1, Len(s) - 1), chars)
    ELSE s
StripXz(p) == [p EXCEPT !.ext = RStrip(p.ext, {".", "x", "z"})]

\* needle in s, for the characters after the stem
Contains(s, needle) ==
    \E i \in 1..Len(s) :
        i + Len(needle) - 1 <= Len(s)
        /\ SubSeq(s, i, i + Len(needle) - 1) = needle
HasXz(p) == Contains(p.ext, <<".", "x", "z">>)

Exists(files, p) == p \in DOMAIN files
Write(files, p, bytes) == (p :> bytes) @@ files
Remove(files, p) == [q \in DOMAIN files \ {p} |-> files[q]]

\* raise "<text>": a string is no exception, so the statement raises
\* TypeError and the text is its operand
StringRaise(text) == [type |-> "TypeError", operand |-> text]

PzCall ==
    [pc |-> "call", pos |-> 0, flags |-> 0, section |-> 0,
     xar_f |-> PayloadSource, archivechunks |-> <<>>, i |-> 1,
     chunks |-> 0, flagwords |-> <<>>, moves |-> <<>>]

\* parse_pbzx up to its loop (lines 202-216): magic, initial flags, the
\* first output file
ParseOpen_OpenFirst ==
    LET data  == fs[PayloadSource]
        magic == SeekRead(data, 0, 0, 4)
        word  == SeekRead(data, magic.pos, 0, 8)
        xar_out_path == PartPath(PayloadSource, 0, CPIO_XZ)
    IN  /\ pz.pc = "call"
        /\ pin.payloadtype = "data"
        /\ fs' = Write(fs, xar_out_path, <<>>)
        /\ IF magic.bytes # PBZX_MAGIC
           THEN /\ perr' = StringRaise("Error: Not a pbzx file")
                /\ pz' = [pz EXCEPT !.pc = "failed", !.pos = magic.pos,
                                    !.moves = <<Moved(209, magic)>>]
           ELSE /\ perr' = NoError
                /\ pz' = [pz EXCEPT !.pc = "loop", !.pos = word.pos,
                                    !.flags = Unpack(word.bytes),
                                    !.flagwords = <<Unpack(word.bytes)>>,
                                    !.moves = <<Moved(209, magic),
                                                Moved(212, word)>>,
                                    !.xar_f = xar_out_path,
                                    !.archivechunks = <<xar_out_path>>]
        /\ UNCHANGED <<pin, plog>>

ParseOpen ==
    LET data  == fs[PayloadSource]
        magic == SeekRead(data, 0, 0, 4)
        word  == SeekRead(data, magic.pos, 0, 8)
        xar_out_path == PartPath(PayloadSource, 0, CPIO_XZ)
    IN  /\ pz.pc = "call"
        /\ pin.payloadtype = "data"
        /\ IF magic.bytes # PBZX_MAGIC
           THEN /\ perr' = StringRaise("Error: Not a pbzx file")
                /\ pz' = [pz EXCEPT !.pc = "failed", !.pos = magic.pos,
                                    !.moves = <<Moved(209, magic)>>]
                /\ UNCHANGED fs
           ELSE /\ perr' = NoError
                /\ pz' = [pz EXCEPT !.pc = "loop", !.pos = word.pos,
                                    !.flags = Unpack(word.bytes),
                                    !.flagwords = <<Unpack(word.bytes)>>,
                                    !.moves = <<Moved(209, magic),
                                                Moved(212, word)>>,
                                    !.xar_f = xar_out_path,
                                    !.archivechunks = <<xar_out_path>>]
                /\ fs' = Write(fs, xar_out_path, <<>>)
        /\ UNCHANGED <<pin, plog>>

\* "Let's back up": seekread(f, offset=-6, length=0) (line 228)
BackUp(data, pos) == SeekRead(data, pos, -6, 0)

\* tail != 'YZ' (line 250)
FooterMismatch_FirstByte(tail) == tail = <<>> \/ tail[1] # XZ_FOOTER[1]

FooterMismatch(tail) == tail # XZ_FOOTER

\* one pass of the while loop of parse_pbzx (lines 217-252)
ParseChunk ==
    LET data    == fs[PayloadSource]
        word    == SeekRead(data, pz.pos, 0, 8)
        lenword == SeekRead(data, word.pos, 0, 8)
        f_length == Unpack(lenword.bytes)
        xzmagic == SeekRead(data, lenword.pos, 0, 6)
        triple  == <<Moved(219, word), Moved(222, lenword), Moved(224, xzmagic)>>
        read    == [pz EXCEPT !.flags = Unpack(word.bytes),
                              !.flagwords = Append(pz.flagwords, Unpack(word.bytes)),
                              !.chunks = pz.chunks + 1]
    IN  /\ pz.pc = "loop"
        /\ Bit24(pz.flags)
        /\ IF xzmagic.bytes # XZ_MAGIC
           THEN LET back       == BackUp(data, xzmagic.pos)
                    f_content  == SeekRead(data, back.pos, 0, f_length)
                    decomp_out == PartPath(PayloadSource, pz.section + 1, CPIO)
                    new_out    == PartPath(PayloadSource, pz.section + 2, CPIO_XZ)
                IN  IF f_content.is_none
                    THEN \* g.write(None)
                         /\ perr' = [type |-> "TypeError", operand |-> "write"]
                         /\ fs' = Write(fs, decomp_out, <<>>)
                         /\ pz' = [read EXCEPT !.pc = "failed",
                                               !.pos = f_content.pos,
                                               !.moves = pz.moves \o triple \o
                                                   <<Moved(228, back),
                                                     Moved(230, f_content)>>,
                                               !.section = pz.section + 1]
                    ELSE /\ perr' = NoError
                         /\ fs' = Write(Write(fs, decomp_out, f_content.bytes),
                                        new_out, <<>>)
                         /\ pz' = [read EXCEPT !.pos = f_content.pos,
                                               !.moves = pz.moves \o triple \o
                                                   <<Moved(228, back),
                                                     Moved(230, f_content)>>,
                                               !.section = pz.section + 2,
                                               !.xar_f = new_out,
                                               !.archivechunks =
                                                   pz.archivechunks
                                                   \o <<decomp_out, new_out>>]
           ELSE LET f_content == SeekRead(data, xzmagic.pos, 0, f_length - 6)
                    tail      == SeekRead(data, f_content.pos, -2, 2)
                    moved     == pz.moves \o triple \o
                                 <<Moved(247, f_content), Moved(248, tail)>>
                IN  /\ fs' = Write(fs, pz.xar_f,
                                   fs[pz.xar_f] \o xzmagic.bytes \o f_content.bytes)
                    /\ IF FooterMismatch(tail.bytes)
                       THEN /\ perr' = StringRaise(
                                   "Error: Footer is not xar file footer")
                            /\ pz' = [read EXCEPT !.pc = "failed",
                                                  !.pos = tail.pos,
                                                  !.moves = moved]
                       ELSE /\ perr' = NoError
                            /\ pz' = [read EXCEPT !.pos = tail.pos,
                                                  !.moves = moved]
        /\ UNCHANGED <<pin, plog>>

\* the return of parse_pbzx (lines 254-260) and what processframeworkpayload
\* does with it before its loop (lines 267-269)
ParseReturn ==
    /\ pz.pc = "loop"
    /\ ~Bit24(pz.flags)
    /\ fs' = Write(Remove(fs, PayloadSource), CpioArchive, <<>>)
    /\ pz' = [pz EXCEPT !.pc = "assemble", !.i = 1]
    /\ perr' = NoError
    /\ UNCHANGED <<pin, plog>>

\* runcmd of processNBI, which its callers use and no source file defines:
\* by the error policy of the design a command that exits non-zero raises
\* an error with its command line, exit code and stderr
RunCmdError(command, returncode, stderr) ==
    [type |-> "CommandError", command |-> command,
     return_code |-> returncode, stderr |-> stderr]

XZ_EXEC == "/usr/bin/xz"
\* xzextract(xzexec, xzfile)
XzExtract(xzexec, xzfile) == <<xzexec, "-d", xzfile>>

\* the files after 'xz -d xzfile' ran in TMPDIR: the stream is replaced by
\* its content, or left alone when xz cannot decode it
XzTool(files, xzfile) ==
    LET dec == Decode(files[xzfile])
    IN  IF dec.ok
        THEN [returncode |-> 0,
              files |-> Write(Remove(files, xzfile), StripXz(xzfile), dec.data)]
        ELSE [returncode |-> 1, files |-> files]

\* the files after decompress(infile, outfile), src/processnbi.py:51-131:
\* the output file is opened, and filled when the decoder reaches the end
Decompress(files, infile, outfile) ==
    LET dec == Decode(files[infile])
    IN  IF dec.ok
        THEN [raised |-> FALSE, files |-> Write(files, outfile, dec.data)]
        ELSE [raised |-> TRUE, files |-> Write(files, outfile, <<>>)]

\* shutil.copyfileobj(fin, fout, 65536)
CopyFileObj_Prepend(files, fin, fout) == Write(files, fout, files[fin] \o files[fout])

CopyFileObj(files, fin, fout) == Write(files, fout, files[fout] \o files[fin])

\* the built-in path of the loop body: decompress, then os.remove(xzfile)
BuiltinExtract_KeepsFragment(files, xzfile) ==
    LET d == Decompress(files, xzfile, StripXz(xzfile))
    IN  [raised |-> d.raised, files |-> d.files]

BuiltinExtract(files, xzfile) ==
    LET d == Decompress(files, xzfile, StripXz(xzfile))
    IN  [raised |-> d.raised,
         files |-> IF d.raised THEN d.files ELSE Remove(d.files, xzfile)]

\* history: the fragment a pass consumed, what it held, and the branch taken
LogEntry(xzfile, decoded) ==
    [path |-> xzfile, decoded |-> decoded, content |-> fs[xzfile]]

\* one pass of the for loop of processframeworkpayload (lines 271-297)
AssembleFragment ==
    LET xzfile == pz.archivechunks[pz.i]
    IN  /\ pz.pc = "assemble"
        /\ pz.i <= Len(pz.archivechunks)
        /\ IF HasXz(xzfile) /\ Len(fs[xzfile]) > 0
           THEN LET x == IF pin.xzexec
                         THEN LET t == XzTool(fs, xzfile)
                              IN  [raised |-> t.returncode # 0, files |-> t.files,
                                   error |-> RunCmdError(
                                       XzExtract(XZ_EXEC, xzfile), t.returncode,
                                       "xz: File format not recognized")]
                         ELSE LET b == BuiltinExtract(fs, xzfile)
                              IN  [raised |-> b.raised, files |-> b.files,
                                   error |-> [type |-> "Exception"]]
                    fin == StripXz(xzfile)
                IN  IF x.raised
                    THEN /\ perr' = x.error
                         /\ fs' = x.files
                         /\ pz' = [pz EXCEPT !.pc = "failed"]
                         /\ UNCHANGED plog
                    ELSE LET copied == CopyFileObj(x.files, fin, CpioArchive)
                         IN  /\ perr' = NoError
                             /\ fs' = Remove(copied, fin)
                             /\ pz' = [pz EXCEPT !.i = pz.i + 1]
                             /\ plog' = Append(plog, LogEntry(xzfile, TRUE))
           ELSE LET copied == CopyFileObj(fs, xzfile, CpioArchive)
                IN  /\ perr' = NoError
                    /\ fs' = Remove(copied, xzfile)
                    /\ pz' = [pz EXCEPT !.i = pz.i + 1]
                    /\ plog' = Append(plog, LogEntry(xzfile, FALSE))
        /\ UNCHANGED pin

\* fout.close() after the last fragment (line 299)
AssembleClose ==
    /\ pz.pc = "assemble"
    /\ pz.i > Len(pz.archivechunks)
    /\ pz' = [pz EXCEPT !.pc = "done"]
    /\ UNCHANGED <<pin, fs, perr, plog>>

\* no pbzx wrapper: os.rename(payloadsource, cpio_archive) (lines 301-303)
RenamePayload ==
    /\ pz.pc = "call"
    /\ pin.payloadtype # "data"
    /\ fs' = Write(Remove(fs, PayloadSource), CpioArchive, fs[PayloadSource])
    /\ pz' = [pz EXCEPT !.pc = "done"]
    /\ UNCHANGED <<pin, perr, plog>>

\* the payloads processframeworkpayload is handed
Chunks == [kind : ChunkKinds, data : ChunkContents]
PayloadInputs ==
    {[chunks |-> c, fault |-> f, k |-> k, xzexec |-> x, payloadtype |-> t] :
        c \in SeqsUpTo(Chunks, MaxChunks), f \in Faults, k \in 0..MaxChunks,
        x \in BOOLEAN, t \in {"data", "bzip2 compressed data"}}
ValidInput(p) ==
    /\ p.fault \in {"none", "magic"} => p.k = 0
    /\ p.fault \in {"footer", "body"} =>
           p.k \in DOMAIN p.chunks /\ p.chunks[p.k].kind = "xz"
    /\ p.payloadtype # "data" =>
           p.chunks = <<>> /\ p.fault = "none" /\ ~p.xzexec

NoPayload ==
    [chunks |-> <<>>, fault |-> "none", k |-> 0, xzexec |-> FALSE,
     payloadtype |-> "none"]
NoFiles == [p \in {} |-> <<>>]
PayloadAtRest ==
    /\ pin = NoPayload
    /\ fs = NoFiles
    /\ pz = [PzCall EXCEPT !.pc = "idle"]
    /\ perr = NoError
    /\ plog = <<>>

-----------------------------------------------------------------------------
(* processNBI.modify, src/AutoNBI.py:1072-1385: the base-system image is   *)
(* resized, attached, modified, detached, converted and copied back, then  *)
(* the NetInstall image is detached and sealed.                            *)

OsVersions == {"Yosemite", "ElCap", "Sierra", "HighSierra"}
\* what the command line asked for
ModifyOptions ==
    [osver : OsVersions, customfolder : BOOLEAN, frameworks : BOOLEAN,
     utilplist : BOOLEAN, vncpassword : BOOLEAN]

\* the name modifybasesystem, bound nowhere in the sources, as the comment
\* above its use computes it (src/AutoNBI.py:1118-1121)
ModifyBaseSystem(o) ==
    o.frameworks \/ o.osver \in {"ElCap", "Sierra", "HighSierra"}
    \/ o.utilplist \/ o.vncpassword

HIGH_SIERRA_APP == "Install macOS High Sierra Beta.app/Contents/SharedSupport"
BaseSystemDmg(o) ==
    IF o.osver = "HighSierra"
    THEN NBI_MOUNT \o "/" \o HIGH_SIERRA_APP \o "/BaseSystem.dmg"
    ELSE NBI_MOUNT \o "/BaseSystem.dmg"
BaseSystemShadow == TMPDIR \o "/BaseSystem.shadow"
BaseSystemRW == TMPDIR \o "/BaseSystemRW.dmg"
BaseSystemRO == TMPDIR \o "/BaseSystemRO.dmg"
NbiShadow == ShadowPathFor(NBI_DMG_PATH)

\* ''.join of the characters of a string held as a sequence
RECURSIVE Str(_)
Str(s) == IF s = <<>> THEN "" ELSE Head(s) \o Str(Tail(s))

\* size = output.split('\t')[0]
MinSize_Last(output) ==
    LET fields == Split(output, TAB) IN Str(fields[Len(fields)])

MinSize(output) == Str(Head(Split(output, TAB)))

\* the command dmgresize(resize_source, shadow_file, size) returns; without
\* a shadow file it asks hdiutil for the limits first
DmgResize(resize_source, shadow_file, size, limits) ==
    IF shadow_file # None
    THEN <<HDIUTIL, "resize", "-size", size, "-shadow", shadow_file,
           resize_source>>
    ELSE <<HDIUTIL, "resize", "-size", MinSize(limits.stdout) \o "b",
           resize_source>>

\* the command dmgconvert(source, target, shadow_file, mode) returns; no
\* source file defines it, the convert service of the design gives its shape
DmgConvert(source, target, shadow_file, mode) ==
    <<HDIUTIL, "convert", "-format", mode, "-o", target>>
    \o (IF shadow_file # None THEN <<"-shadow", shadow_file>> ELSE <<>>)
    \o <<source>>

\* entries of the log of a run of modify
Cmd(command, out) ==
    [kind |-> "cmd", command |-> command, rc |-> out.returncode,
     stderr |-> out.stderr, stdout |-> out.stdout]
FileOp(kind, path, to) == [kind |-> kind, path |-> path, to |-> to]
CmdsOf(runs) == [i \in DOMAIN runs |-> Cmd(runs[i].command,
                    [returncode |-> runs[i].out.returncode,
                     stderr |-> IF "stderr" \in DOMAIN runs[i].out
                                THEN runs[i].out.stderr ELSE "",
                     stdout |-> ""])]

\* the last entity with a mount point is the one modify keeps
LastMountPoint(entities) ==
    LET mps == MountPointsOf(entities) IN mps[Len(mps)]

\* the content modifications of lines 1152-1324, in the order of the code
ContentSteps(o, mountpoint) ==
    (IF o.osver \in {"ElCap", "Sierra", "HighSierra"}
     THEN <<FileOp("modify", mountpoint \o "/private/etc/rc.install", None),
            FileOp("modify", mountpoint \o "/System/Library/LaunchDaemons", None)>>
     ELSE <<>>)
    \o (IF o.customfolder
        THEN <<FileOp("modify",
                      (IF o.osver = "HighSierra"
                       THEN mountpoint \o "/System/Installation"
                       ELSE NBI_MOUNT) \o "/Packages", None)>>
        ELSE <<>>)
ExtraSteps(o, mountpoint) ==
    (IF o.utilplist
     THEN <<FileOp("modify", mountpoint \o "/Utilities.plist", None)>>
     ELSE <<>>)
    \o (IF o.vncpassword
        THEN <<FileOp("modify", mountpoint \o "/com.apple.VNCSettings.txt", None)>>
        ELSE <<>>)

MFail(error) ==
    /\ merr' = error
    /\ mrun' = [mrun EXCEPT !.pc = "failed"]
MGoto(pc) == mrun' = [mrun EXCEPT !.pc = pc]

\* runcmd(dmgresize(basesystemdmg, basesystemshadow, '8G')), line 1138
ModifyResize(out) ==
    LET command == DmgResize(BaseSystemDmg(mrun.opts), BaseSystemShadow, "8G",
                             out)
    IN  /\ mrun.pc = "resize"
        /\ mlog' = Append(mlog, Cmd(command, out))
        /\ IF out.returncode # 0
           THEN MFail(RunCmdError(command, out.returncode, out.stderr))
           ELSE /\ mrun' = [mrun EXCEPT !.pc = "attach",
                                !.files = @ \cup {BaseSystemShadow}]
                /\ UNCHANGED merr

\* runcmd(attach_dmg(basesystemdmg, basesystemshadow, TMPDIR)) and the walk
\* over the plist, lines 1140-1150
ModifyAttach(out) ==
    LET command == attach_dmg(BaseSystemDmg(mrun.opts), BaseSystemShadow, TMPDIR)
    IN  /\ mrun.pc = "attach"
        /\ mlog' = Append(mlog, Cmd(command, out))
        /\ IF out.returncode # 0
           THEN MFail(RunCmdError(command, out.returncode, out.stderr))
           ELSE /\ mrun' = [mrun EXCEPT !.pc = "content",
                                !.basesystemmountpoint = LastMountPoint(out.plist)]
                /\ UNCHANGED merr

\* lines 1152-1324: startup scripts, launch daemons, custom folder, the
\* frameworks (whose commands go through runcmd), Utilities.plist, VNC
ModifyContent(out) ==
    LET mp == mrun.basesystemmountpoint
        cpio == <<"/usr/bin/cpio", "-idmu", "--quiet", "-I", CpioArchive.stem>>
        next == IF ModifyBaseSystem(mrun.opts) THEN "detach" ELSE "unmount_nbi"
    IN  /\ mrun.pc = "content"
        /\ (~mrun.opts.frameworks => out.returncode = 0)
        /\ IF mrun.opts.frameworks /\ out.returncode # 0
           THEN /\ mlog' = mlog \o ContentSteps(mrun.opts, mp) \o <<Cmd(cpio, out)>>
                /\ MFail(RunCmdError(cpio, out.returncode, out.stderr))
           ELSE /\ mlog' = mlog \o ContentSteps(mrun.opts, mp)
                        \o (IF mrun.opts.frameworks
                            THEN <<Cmd(cpio, out),
                                   FileOp("modify", mp \o "/System/Library", None)>>
                            ELSE <<>>)
                        \o ExtraSteps(mrun.opts, mp)
                /\ MGoto(next)
                /\ UNCHANGED merr

\* unmountdmg(basesystemmountpoint), line 1330
ModifyDetach(polite, force_rc) ==
    /\ mrun.pc = "detach"
    /\ mlog' = mlog \o CmdsOf(UnmountDmgRuns(mrun.basesystemmountpoint,
                                             polite, force_rc))
    /\ MGoto("convert_rw")
    /\ UNCHANGED merr

\* runcmd(dmgconvert(..., 'UDRW')) and os.remove(basesystemdmg),
\* lines 1337-1339
ModifyConvertRW(out) ==
    LET source  == BaseSystemDmg(mrun.opts)
        command == DmgConvert(source, BaseSystemRW, BaseSystemShadow, "UDRW")
    IN  /\ mrun.pc = "convert_rw"
        /\ IF out.returncode # 0
           THEN /\ mlog' = Append(mlog, Cmd(command, out))
                /\ MFail(RunCmdError(command, out.returncode, out.stderr))
           ELSE /\ mlog' = mlog \o <<Cmd(command, out),
                                     FileOp("remove", source, None)>>
                /\ mrun' = [mrun EXCEPT !.pc = "shrink",
                                !.files = (@ \cup {BaseSystemRW}) \ {source}]
                /\ UNCHANGED merr

\* runcmd(dmgresize(basesystemrw)), line 1342
ModifyShrink(limits, out) ==
    LET query   == <<HDIUTIL, "resize", "-limits", BaseSystemRW>>
        command == DmgResize(BaseSystemRW, None, None, limits)
    IN  /\ mrun.pc = "shrink"
        /\ mlog' = mlog \o <<Cmd(query, limits), Cmd(command, out)>>
        /\ IF out.returncode # 0
           THEN MFail(RunCmdError(command, out.returncode, out.stderr))
           ELSE MGoto("convert_ro") /\ UNCHANGED merr

\* runcmd(dmgconvert(..., 'UDRO')), shutil.copyfile and the chunklists of
\* High Sierra, lines 1345-1369
ModifyConvertRO(out) ==
    LET target  == BaseSystemDmg(mrun.opts)
        command == DmgConvert(BaseSystemRW, BaseSystemRO, None, "UDRO")
    IN  /\ mrun.pc = "convert_ro"
        /\ IF out.returncode # 0
           THEN /\ mlog' = Append(mlog, Cmd(command, out))
                /\ MFail(RunCmdError(command, out.returncode, out.stderr))
           ELSE /\ mlog' = mlog \o <<Cmd(command, out),
                                     FileOp("copy", BaseSystemRO, target)>>
                             \o (IF mrun.opts.osver = "HighSierra"
                                 THEN <<FileOp("modify", NBI_MOUNT \o "/"
                                          \o HIGH_SIERRA_APP, None)>>
                                 ELSE <<>>)
                /\ mrun' = [mrun EXCEPT !.pc = "unmount_nbi",
                                !.files = @ \cup {BaseSystemRO, target}]
                /\ UNCHANGED merr

\* unmountdmg(nbimount), line 1372
ModifyUnmountNBI(polite, force_rc) ==
    /\ mrun.pc = "unmount_nbi"
    /\ mlog' = mlog \o CmdsOf(UnmountDmgRuns(NBI_MOUNT, polite, force_rc))
    /\ MGoto("seal")
    /\ UNCHANGED merr

\* convertdmg(dmgpath, nbishadow), the two os.remove and os.rename,
\* lines 1378-1385
ModifySeal(out) ==
    LET command  == ConvertDmgCommand(NBI_DMG_PATH, NbiShadow)
        dmgfinal == ConvertDmgReturn(NBI_DMG_PATH)
        made     == IF out.returncode = 0 THEN mrun.files \cup {dmgfinal}
                    ELSE mrun.files
        removed  == made \ {NbiShadow, NBI_DMG_PATH}
    IN  /\ mrun.pc = "seal"
        /\ IF dmgfinal \in removed
           THEN /\ mlog' = mlog \o <<Cmd(command, out),
                                     FileOp("remove", NbiShadow, None),
                                     FileOp("remove", NBI_DMG_PATH, None),
                                     FileOp("rename", dmgfinal, NBI_DMG_PATH)>>
                /\ mrun' = [mrun EXCEPT !.pc = "done",
                                !.files = (removed \ {dmgfinal})
                                          \cup {NBI_DMG_PATH}]
                /\ UNCHANGED merr
           ELSE /\ mlog' = mlog \o <<Cmd(command, out),
                                     FileOp("remove", NbiShadow, None),
                                     FileOp("remove", NBI_DMG_PATH, None)>>
                /\ mrun' = [mrun EXCEPT !.pc = "failed", !.files = removed]
                /\ merr' = [type |-> "OSError", path |-> dmgfinal]

ModifyAtRest ==
    /\ mrun = [pc |-> "idle", opts |-> [osver |-> "Yosemite",
               customfolder |-> FALSE, frameworks |-> FALSE,
               utilplist |-> FALSE, vncpassword |-> FALSE],
               files |-> {}, basesystemmountpoint |-> None]
    /\ mlog = <<>>
    /\ merr = NoError

-----------------------------------------------------------------------------
(* The content block of processNBI.modify, src/AutoNBI.py:1080-1117 and    *)
(* 1207-1304: the replacement of the custom folder and the frameworks.     *)

\* names the entries of a directory tree are built from
FileNames == {"a", "b"}
SubFileNames == {"c"}

\* an entry of the file system: nothing, a file, a symbolic link to the path
\* 'target', or a directory with files and at most one sub-directory 'sub'
\* (sub is <<>> or holds the set of the files of that sub-directory)
NoEntry == [kind |-> "absent", files |-> {}, sub |-> <<>>]
FileEntry == [kind |-> "file", files |-> {}, sub |-> <<>>]
LinkEntry == [kind |-> "link", files |-> {}, sub |-> <<>>]
DirEntry(files, sub) == [kind |-> "dir", files |-> files, sub |-> sub]
EmptyDir == DirEntry({}, <<>>)
DirShapes ==
    {DirEntry(f, s) : f \in SUBSET FileNames,
                      s \in {<<>>} \cup {<<c>> : c \in SUBSET SubFileNames}}

\* os.path.lexists(processdir), os.path.islink, os.path.isdir: only isdir
\* follows a symbolic link
LExists(files) == files.dest.kind # "absent"
IsLink(files) == files.dest.kind = "link"
IsDir_NoFollow(files) == files.dest.kind = "dir"

IsDir(files) ==
    \/ files.dest.kind = "dir"
    \/ files.dest.kind = "link" /\ files.target.kind = "dir"

\* the names below a directory that distutils' _build_cmdtuple hands to
\* os.remove and os.rmdir: every file, the files of the real sub-directory,
\* the sub-directory, and last the path itself
CmdTuples(root, d) ==
    {[fn |-> "os.remove", path |-> root \o "/" \o f] : f \in d.files}
    \cup (IF d.sub = <<>> THEN {}
          ELSE {[fn |-> "os.remove", path |-> root \o "/sub/" \o f] :
                    f \in d.sub[1]}
               \cup {[fn |-> "os.rmdir", path |-> root \o "/sub"]})
    \cup {[fn |-> "os.rmdir", path |-> root]}

\* distutils.dir_util.remove_tree(processdir): listdir walks through a
\* symbolic link, os.rmdir of a symbolic link raises OSError, and remove_tree
\* turns the OSError of any of its calls into a warning
RemoveTree(files, processdir) ==
    IF files.dest.kind = "dir"
    THEN [files  |-> [files EXCEPT !.dest = NoEntry],
          calls  |-> CmdTuples(processdir, files.dest),
          warned |-> {}]
    ELSE [files  |-> [files EXCEPT !.target = EmptyDir],
          calls  |-> CmdTuples(processdir, files.target),
          warned |-> {processdir}]

\* os.unlink(processdir): removes the name, whatever it points to
Unlink(files) == [files EXCEPT !.dest = NoEntry]

\* what copy_tree leaves at a directory that held d when it copies s in
MergeTree(d, s) ==
    DirEntry(d.files \cup s.files,
             IF s.sub = <<>> THEN d.sub
             ELSE IF d.sub = <<>> THEN s.sub
             ELSE <<d.sub[1] \cup s.sub[1]>>)

\* distutils.dir_util.copy_tree(self.customfolder, processdir): mkpath makes
\* the directory unless isdir(processdir) holds already
CopyTree(files) ==
    IF files.dest.kind = "link" /\ files.target.kind = "dir"
    THEN [files EXCEPT !.target = MergeTree(files.target, files.src)]
    ELSE IF files.dest.kind = "dir"
    THEN [files EXCEPT !.dest = MergeTree(files.dest, files.src)]
    ELSE [files EXCEPT !.dest = MergeTree(EmptyDir, files.src)]

\* addframeworks, lines 1080-1084
AddFrameworks(enablepython, enableruby) ==
    (IF enablepython THEN <<"python">> ELSE <<>>)
    \o (IF enableruby THEN <<"ruby">> ELSE <<>>)

\* what the command line asked for and the version of the install source
ContentOptions ==
    [osver : OsVersions, customfolder : BOOLEAN,
     enablepython : BOOLEAN, enableruby : BOOLEAN]

\* BuildEnvironment.version_major of the install source
VersionMajor(osver) ==
    CASE osver = "HighSierra" -> "10.13"
      [] osver = "Sierra"     -> "10.12"
      [] osver = "ElCap"      -> "10.11"
      [] OTHER                -> "10.10"

\* the payloads dictionary of modify, lines 1086-1117
Payloads_ElCapDefault(osver) ==
    IF osver = "HighSierra"
    THEN [python |-> [sourcepayloads |-> <<"Core">>,
                      regex |-> "\"*Py*\" \"*py*\" \"*libssl*\" \"*libcrypto*\" \"*libffi.dylib*\" \"*libexpat*\""],
          ruby   |-> [sourcepayloads |-> <<"Core">>,
                      regex |-> "\"*ruby*\" \"*lib*ruby*\" \"*Ruby.framework*\"  \"*libssl*\""]]
    ELSE IF osver = "Sierra"
    THEN [python |-> [sourcepayloads |-> <<"Essentials">>,
                      regex |-> "\"*Py*\" \"*py*\" \"*libssl*\" \"*libffi.dylib*\" \"*libexpat*\""],
          ruby   |-> [sourcepayloads |-> <<"Essentials">>,
                      regex |-> "\"*ruby*\" \"*lib*ruby*\" \"*Ruby.framework*\"  \"*libssl*\""]]
    ELSE [python |-> [sourcepayloads |-> <<"BSD">>,
                      regex |-> "\"*Py*\" \"*py*\""],
          ruby   |-> [sourcepayloads |-> <<"BSD", "Essentials">>,
                      regex |-> "\"*ruby*\" \"*lib*ruby*\" \"*Ruby.framework*\""]]

Payloads(osver) ==
    IF osver = "HighSierra"
    THEN [python |-> [sourcepayloads |-> <<"Core">>,
                      regex |-> "\"*Py*\" \"*py*\" \"*libssl*\" \"*libcrypto*\" \"*libffi.dylib*\" \"*libexpat*\""],
          ruby   |-> [sourcepayloads |-> <<"Core">>,
                      regex |-> "\"*ruby*\" \"*lib*ruby*\" \"*Ruby.framework*\"  \"*libssl*\""]]
    ELSE IF osver = "Sierra"
    THEN [python |-> [sourcepayloads |-> <<"Essentials">>,
                      regex |-> "\"*Py*\" \"*py*\" \"*libssl*\" \"*libffi.dylib*\" \"*libexpat*\""],
          ruby   |-> [sourcepayloads |-> <<"Essentials">>,
                      regex |-> "\"*ruby*\" \"*lib*ruby*\" \"*Ruby.framework*\"  \"*libssl*\""]]
    ELSE IF osver = "ElCap"
    THEN [python |-> [sourcepayloads |-> <<"Essentials">>,
                      regex |-> "\"*Py*\" \"*py*\" \"*libssl*\""],
          ruby   |-> [sourcepayloads |-> <<"Essentials">>,
                      regex |-> "\"*ruby*\" \"*lib*ruby*\" \"*Ruby.framework*\"  \"*libssl*\""]]
    ELSE [python |-> [sourcepayloads |-> <<"BSD">>,
                      regex |-> "\"*Py*\" \"*py*\""],
          ruby   |-> [sourcepayloads |-> <<"BSD", "Essentials">>,
                      regex |-> "\"*ruby*\" \"*lib*ruby*\" \"*Ruby.framework*\""]]

\* the tables of src/modifications.py:6-26
Python_Framework ==
    [v \in {"10.13", "10.12", "10.11", "default"} |->
        CASE v = "10.13" ->
               [sourcepayloads |-> <<"Core">>,
                regex |-> "\"*Py*\" \"*py*\" \"*libssl*\" \"*libcrypto*\" \"*libffi.dylib*\" \"*libexpat*\""]
          [] v = "10.12" ->
               [sourcepayloads |-> <<"Essentials">>,
                regex |-> "\"*Py*\" \"*py*\" \"*libssl*\" \"*libffi.dylib*\" \"*libexpat*\""]
          [] v = "10.11" ->
               [sourcepayloads |-> <<"Essentials">>,
                regex |-> "\"*Py*\" \"*py*\" \"*libssl*\""]
          [] OTHER ->
               [sourcepayloads |-> <<"BSD">>,
                regex |-> "\"*Py*\" \"*py*\""]]
Ruby_Framework ==
    [v \in {"10.13", "10.12", "10.11", "default"} |->
        CASE v = "10.13" ->
               [sourcepayloads |-> <<"Core">>,
                regex |-> "\"*ruby*\" \"*lib*ruby*\" \"*Ruby.framework*\"  \"*libssl*\""]
          [] v = "10.12" ->
               [sourcepayloads |-> <<"Essentials">>,
                regex |-> "\"*ruby*\" \"*lib*ruby*\" \"*Ruby.framework*\"  \"*libssl*\""]
          [] v = "10.11" ->
               [sourcepayloads |-> <<"Essentials">>,
                regex |-> "\"*ruby*\" \"*lib*ruby*\" \"*Ruby.framework*\"  \"*libssl*\""]
          [] OTHER ->
               [sourcepayloads |-> <<"BSD", "Essentials">>,
                regex |-> "\"*ruby*\" \"*lib*ruby*\" \"*Ruby.framework*\""]]

\* processdir, lines 1214-1218, for a custom folder named Packages
CUSTOM_FOLDER == "/custom/Packages"
BASESYSTEM_MOUNT == TMPDIR \o "/dmg.BaseSystem"
ProcessDir(osver) ==
    IF osver = "HighSierra"
    THEN BASESYSTEM_MOUNT \o "/System/Installation/Packages"
    ELSE NBI_MOUNT \o "/Packages"

\* xarextract, cpioextract and the archive name of lines 1264-1268
XarExtract(xar_source) ==
    <<"/usr/bin/xar", "-x", "-f", xar_source, "Payload", "-C", TMPDIR>>
CpioExtract(cpio_archive, pattern) ==
    <<"/usr/bin/cpio -idmu --quiet -I " \o cpio_archive \o " " \o pattern>>
CpioArchiveOf(payload) == TMPDIR \o "/Payload-" \o payload \o ".cpio.xz"
XarSource(payload) == INSTALLER_PATH \o "/Packages/" \o payload \o ".pkg"

CFail(error) ==
    /\ cerr' = error
    /\ crun' = [crun EXCEPT !.pc = "failed"]
AfterCustom(o) ==
    IF AddFrameworks(o.enablepython, o.enableruby) # <<>>
    THEN "frameworks" ELSE "done"

\* lines 1214-1231: whatever is at processdir is removed
CustomRemove ==
    LET processdir == ProcessDir(crun.opts.osver)
    IN  /\ crun.pc = "custom_remove"
        /\ IF LExists(cfs)
           THEN IF IsDir(cfs)
                THEN LET r == RemoveTree(cfs, processdir)
                     IN  /\ cfs' = r.files
                         /\ clog' = Append(clog,
                                [kind |-> "remove_tree", path |-> processdir,
                                 calls |-> r.calls, warned |-> r.warned])
                ELSE /\ cfs' = Unlink(cfs)
                     /\ clog' = Append(clog,
                                [kind |-> "unlink", path |-> processdir,
                                 calls |-> {}, warned |-> {}])
           ELSE UNCHANGED <<cfs, clog>>
        /\ crun' = [crun EXCEPT !.pc = "custom_copy"]
        /\ UNCHANGED cerr

\* lines 1236-1245: the replacement is copied in; on High Sierra the
\* InstallESD.dmg of the installer application is removed
CustomCopy ==
    LET processdir == ProcessDir(crun.opts.osver)
    IN  /\ crun.pc = "custom_copy"
        /\ cfs' = CopyTree(cfs)
        /\ clog' = clog
                   \o <<[kind |-> "copy_tree", path |-> CUSTOM_FOLDER,
                         to |-> processdir]>>
                   \o (IF crun.opts.osver = "HighSierra"
                       THEN <<FileOp("remove", NBI_MOUNT \o "/" \o HIGH_SIERRA_APP
                                     \o "/InstallESD.dmg", None)>>
                       ELSE <<>>)
        /\ crun' = [crun EXCEPT !.pc = AfterCustom(crun.opts)]
        /\ UNCHANGED cerr

\* 'cpio_archive not in havepayload' (line 1273), negated
Cached_Never(cpio_archive, havepayload) == FALSE

Cached(cpio_archive, havepayload) == cpio_archive \in Range(havepayload)

\* one pass of the inner loop of lines 1254-1298: the payload of a framework
\* is extracted unless it is cached, then its members are copied out
FrameworkPayload(xar_out, processed, cpio_out) ==
    LET addframeworks == AddFrameworks(crun.opts.enablepython,
                                       crun.opts.enableruby)
        framework     == addframeworks[crun.i]
        payloads      == Payloads(crun.opts.osver)
        regex         == payloads[framework].regex
        sources       == payloads[framework].sourcepayloads
        payload       == sources[crun.j]
        cpio_archive  == CpioArchiveOf(payload)
        cached        == Cached(cpio_archive, crun.havepayload)
        xar           == XarExtract(XarSource(payload))
        cpio          == CpioExtract(cpio_archive, regex)
        resolved      == [kind |-> "payload", framework |-> framework,
                          payload |-> payload, regex |-> regex,
                          sourcepayloads |-> sources, cached |-> cached]
        last          == crun.j = Len(sources)
        next          == [crun EXCEPT
                            !.havepayload =
                                IF cached \/ cpio_archive \in Range(@) THEN @
                                ELSE Append(@, cpio_archive),
                            !.archives = IF cached THEN @
                                         ELSE @ \cup {cpio_archive},
                            !.i = IF last THEN @ + 1 ELSE @,
                            !.j = IF last THEN 1 ELSE @ + 1,
                            !.pc = IF last /\ crun.i = Len(addframeworks)
                                   THEN "uncache" ELSE "frameworks"]
    IN  /\ crun.pc = "frameworks"
        /\ (cached => xar_out.returncode = 0 /\ processed)
        /\ (xar_out.returncode # 0 => processed /\ cpio_out.returncode = 0)
        /\ (~processed => cpio_out.returncode = 0)
        /\ UNCHANGED cfs
        /\ IF ~cached /\ xar_out.returncode # 0
           THEN /\ clog' = clog \o <<resolved, Cmd(xar, xar_out)>>
                /\ CFail(RunCmdError(xar, xar_out.returncode, xar_out.stderr))
           ELSE IF ~cached /\ ~processed
           THEN /\ clog' = clog \o <<resolved, Cmd(xar, xar_out)>>
                /\ CFail([type |-> "Exception"])
           ELSE IF cpio_out.returncode # 0
           THEN /\ clog' = clog \o <<resolved>>
                             \o (IF cached THEN <<>> ELSE <<Cmd(xar, xar_out)>>)
                             \o <<Cmd(cpio, cpio_out)>>
                /\ cerr' = RunCmdError(cpio, cpio_out.returncode, cpio_out.stderr)
                /\ crun' = [next EXCEPT !.pc = "failed", !.i = crun.i,
                                        !.j = crun.j]
           ELSE /\ clog' = clog \o <<resolved>>
                             \o (IF cached THEN <<>> ELSE <<Cmd(xar, xar_out)>>)
                             \o <<Cmd(cpio, cpio_out)>>
                /\ crun' = next
                /\ UNCHANGED cerr

\* lines 1300-1304: the cached archives are removed
RemoveCached ==
    /\ crun.pc = "uncache"
    /\ LET there == SelectSeq(crun.havepayload,
                              LAMBDA a : a \in crun.archives)
       IN  /\ clog' = clog \o [k \in DOMAIN there |->
                                  FileOp("remove", there[k], None)]
           /\ crun' = [crun EXCEPT !.pc = "done",
                                   !.archives = @ \ Range(there)]
    /\ UNCHANGED <<cfs, cerr>>

NoTrees ==
    [dest |-> NoEntry, target |-> NoEntry, src |-> EmptyDir,
     orig |-> [dest |-> NoEntry, target |-> NoEntry]]
ContentAtRest ==
    /\ crun = [pc |-> "idle",
               opts |-> [osver |-> "Yosemite", customfolder |-> FALSE,
                         enablepython |-> FALSE, enableruby |-> FALSE],
               i |-> 1, j |-> 1, havepayload |-> <<>>, archives |-> {}]
    /\ cfs = NoTrees
    /\ clog = <<>>
    /\ cerr = NoError

-----------------------------------------------------------------------------
(* decompress, src/processnbi.py:51-131: the loop that feeds liblzma.  The *)
(* decoder is the library's: what lzma_code consumes, produces and reports *)
(* is an input of each pass, within what liblzma promises.                 *)

LZMA_OK == 0
LZMA_RUN == 0
LZMA_FINISH == 3
LZMA_STREAM_END == 1
\* the return codes of lzma/base.h that the source does not name
LZMA_ERRORS == [mem |-> 5, data |-> 9, buf |-> 10, prog |-> 11]

Min(a, b) == IF a < b THEN a ELSE b

\* the input files: their length, the length of what they decode to and
\* whether they are a sound sequence of streams; nothing comes out of nothing
XzFiles ==
    {f \in [len : 0..MaxInputLen, out : 0..MaxOutputLen, sound : BOOLEAN] :
        f.len = 0 => f.out = 0}

\* lzma_stream_decoder(strm, UINT64_MAX, LZMA_CONCATENATED): LZMA_OK, or an
\* error that leaves the stream without a coder
InitResults == {LZMA_OK, LZMA_ERRORS.mem}

\* lzma_code(strm, action) on a stream with avail_in bytes to read and room
\* for avail_out bytes: it consumes c and produces p bytes and stops when the
\* input is used up or the output is full; it reports LZMA_STREAM_END only
\* under LZMA_FINISH at the end of sound input, LZMA_BUF_ERROR when two calls
\* in a row could do nothing, LZMA_PROG_ERROR without a coder
LzmaCode(dec, file, avail_in, avail_out, action) ==
    IF ~dec.initialised
    THEN {[c |-> 0, p |-> 0, result |-> LZMA_ERRORS.prog]}
    ELSE LET out_left == file.out - dec.total_out
             moves == {o \in [c : 0..avail_in, p : 0..Min(avail_out, out_left)] :
                          /\ o.c = avail_in \/ o.p = avail_out
                          /\ dec.total_in + o.c = 0 => o.p = 0
                          /\ (action = LZMA_FINISH /\ o.c = avail_in) =>
                                 o.p = Min(avail_out, out_left)}
             at_end(o) == /\ action = LZMA_FINISH
                          /\ o.c = avail_in
                          /\ dec.total_in + o.c = file.len
                          /\ o.p = out_left
             report(o) == IF at_end(o)
                          THEN IF file.sound THEN LZMA_STREAM_END
                               ELSE LZMA_ERRORS.data
                          ELSE IF o.c = 0 /\ o.p = 0 /\ dec.stalled
                          THEN LZMA_ERRORS.buf
                          ELSE LZMA_OK
         IN  {[c |-> o.c, p |-> o.p, result |-> report(o)] : o \in moves}
             \cup (IF file.sound THEN {}
                   ELSE {[c |-> o.c, p |-> o.p, result |-> LZMA_ERRORS.data] :
                            o \in moves})

\* the bytes the decoder writes at next_out: byte n of its output is n
Produced(total_out, p) == [k \in 1..p |-> total_out + k]

\* line 111: the output buffer is written out
Flush_OnlyWhenFull(avail_out, result) == avail_out = 0

Flush(avail_out, result) == avail_out = 0 \/ result = LZMA_STREAM_END

\* line 124: the decoder is done
Finished_AnyStatus(result) == result # LZMA_OK

Finished(result) == result = LZMA_STREAM_END

\* lines 53-85: the stream, the decoder, the two buffers, the two files
DecompressOpen(init_result) ==
    /\ dz.pc = "call"
    /\ dz' = [dz EXCEPT !.pc = "loop",
                        !.init_result = init_result,
                        !.dec = [initialised |-> init_result = LZMA_OK,
                                 total_in |-> 0, total_out |-> 0,
                                 stalled |-> FALSE],
                        !.avail_out = BUFSIZ,
                        !.avail_in = 0,
                        !.cursor = 0,
                        !.EOF = dz.file.len,
                        !.action = LZMA_RUN,
                        !.outbuf = <<>>,
                        !.f_out = <<>>,
                        !.opened = {"infile", "outfile"}]
    /\ UNCHANGED <<dlog, derr>>

\* one pass of the while loop, lines 87-131
DecompressPass(o) ==
    LET load      == dz.avail_in = 0 /\ dz.cursor < dz.EOF
        input_len == IF load THEN Min(BUFSIZ, dz.EOF - dz.cursor) ELSE 0
        avail_in  == IF load THEN input_len ELSE dz.avail_in
        cursor    == dz.cursor + input_len
        action    == IF load /\ cursor >= dz.EOF THEN LZMA_FINISH ELSE dz.action
        avail_out == dz.avail_out - o.p
        outbuf    == dz.outbuf \o Produced(dz.dec.total_out, o.p)
        flush     == Flush(avail_out, o.result)
        output_len == BUFSIZ - avail_out
        call      == [action |-> action, result |-> o.result,
                      cursor |-> cursor, EOF |-> dz.EOF,
                      read |-> IF load THEN <<input_len>> ELSE <<>>,
                      wrote |-> IF flush THEN <<output_len>> ELSE <<>>,
                      full |-> avail_out = 0, c |-> o.c, p |-> o.p]
    IN  /\ dz.pc = "loop"
        /\ o \in LzmaCode(dz.dec, dz.file, avail_in, dz.avail_out, action)
        /\ dlog' = Append(dlog, call)
        /\ dz' = [dz EXCEPT
                    !.pc = IF o.result = LZMA_OK THEN "loop"
                           ELSE IF Finished(o.result) THEN "returned"
                           ELSE "raised",
                    !.dec = [initialised |-> dz.dec.initialised,
                             total_in |-> dz.dec.total_in + o.c,
                             total_out |-> dz.dec.total_out + o.p,
                             stalled |-> o.c = 0 /\ o.p = 0],
                    !.avail_in = avail_in - o.c,
                    !.cursor = cursor,
                    !.action = action,
                    !.avail_out = IF flush THEN BUFSIZ ELSE avail_out,
                    !.outbuf = IF flush THEN <<>> ELSE outbuf,
                    !.f_out = IF flush
                              THEN dz.f_out \o SubSeq(outbuf, 1, output_len)
                              ELSE dz.f_out]
        /\ derr' = IF o.result = LZMA_OK \/ Finished(o.result) THEN NoError
                   ELSE [type |-> "Exception", code |-> o.result]

NoXzFile == [len |-> 0, out |-> 0, sound |-> FALSE]
DzCall(file) ==
    [pc |-> "call", file |-> file, init_result |-> LZMA_OK,
     dec |-> [initialised |-> FALSE, total_in |-> 0, total_out |-> 0,
              stalled |-> FALSE],
     avail_out |-> 0, avail_in |-> 0, cursor |-> 0, EOF |-> 0,
     action |-> LZMA_RUN, outbuf |-> <<>>, f_out |-> <<>>, opened |-> {}]
DecompressAtRest ==
    /\ dz = [DzCall(NoXzFile) EXCEPT !.pc = "idle"]
    /\ dlog = <<>>
    /\ derr = NoError

-----------------------------------------------------------------------------
(* BuildEnvironment and InstallSource, src/environment.py (the same classes *)
(* are in src/AutoNBI.py:510-826).  Version strings, the mount points of    *)
(* the source image and the paths made from them are sequences of          *)
(* characters.                                                              *)

\* int(s) for a string of digits
DigitValue(c) == CHOOSE n \in 0..9 : Digit(n) = c
RECURSIVE ToInt(_)
ToInt(s) ==
    IF s = <<>> THEN 0
    ELSE 10 * ToInt(SubSeq(s, 1, Len(s) - 1)) + DigitValue(s[Len(s)])

\* LooseVersion(vstring).version for a string of digits and dots: the
\* components between the dots, empty ones dropped, as integers
LooseVersion(vstring) ==
    LET parts == SelectSeq(Split(vstring, "."), LAMBDA x : x # <<>>)
    IN  [k \in DOMAIN parts |-> ToInt(parts[k])]

\* cmp(a, b) of two lists of integers
RECURSIVE Cmp(_, _)
Cmp(a, b) ==
    IF a = <<>> /\ b = <<>> THEN 0
    ELSE IF a = <<>> THEN -1
    ELSE IF b = <<>> THEN 1
    ELSE IF Head(a) < Head(b) THEN -1
    ELSE IF Head(a) > Head(b) THEN 1
    ELSE Cmp(Tail(a), Tail(b))

V_10_13 == <<"1", "0", ".", "1", "3">>
V_10_12 == <<"1", "0", ".", "1", "2">>
V_10_11 == <<"1", "0", ".", "1", "1">>
V_10_10 == <<"1", "0", ".", "1", "0">>

SIU_AGENT == "/System/Library/PrivateFrameworks/SIUFoundation.framework/XPCServices/com.apple.SIUAgent.xpc/Contents/Resources"
SIU_AGENT_APP == "/System/Library/CoreServices/System Image Utility.app/Contents/Frameworks/SIUFoundation.framework/Versions/A/XPCServices/com.apple.SIUAgent.xpc/Contents/Resources"

BUILD_EXEC_PATHS ==
    [b \in {"10.13", "10.12", "10.11", "10.10"} |->
        IF b = "10.10" THEN SIU_AGENT_APP ELSE SIU_AGENT]

\* the object before __init__ has assigned anything
NoBuildEnvironment == [assigned |-> FALSE, version_major |-> None,
                       build_exec_path |-> None]
Bucket(b) == [assigned |-> TRUE, version_major |-> b,
              build_exec_path |-> BUILD_EXEC_PATHS[b]]

\* the last test of the chain of BuildEnvironment.__init__
Oldest(version) == Cmp(LooseVersion(version), LooseVersion(V_10_10)) <= 0

\* BuildEnvironment.__init__(version): _build_exec_path and _version_major
BuildEnvironment(version) ==
    LET v == LooseVersion(version)
    IN  IF Cmp(v, LooseVersion(V_10_13)) >= 0 THEN Bucket("10.13")
        ELSE IF Cmp(v, LooseVersion(V_10_12)) >= 0 THEN Bucket("10.12")
        ELSE IF Cmp(v, LooseVersion(V_10_11)) >= 0 THEN Bucket("10.11")
        ELSE IF Oldest(version) THEN Bucket("10.10")
        ELSE NoBuildEnvironment

\* s.find(sub): the lowest index (from 0) at which sub starts in s, or -1
Find(s, sub) ==
    LET at == {i \in 0..Len(s) :
                  i + Len(sub) <= Len(s) /\ SubSeq(s, i + 1, i + Len(sub)) = sub}
    IN  IF at = {} THEN -1 ELSE CHOOSE i \in at : \A j \in at : i <= j

\* the loop of dmg_mount_point over the items of what it iterates: the last
\* item i for which i.find('dmg') is true (non-zero), None when there is none
RECURSIVE LastFound(_, _)
LastFound(items, mount) ==
    IF items = <<>> THEN mount
    ELSE LastFound(Tail(items),
                   IF Find(Head(items), <<"d", "m", "g">>) # 0
                   THEN [is_none |-> FALSE, value |-> Head(items)]
                   ELSE mount)

\* what 'for i in x' goes through when x is a string: its characters
Characters(x) == [k \in DOMAIN x |-> <<x[k]>>]

\* InstallSource.dmg_mount_point for the mount-point list of the source Dmg
DmgMountPoint(mount_points) ==
    IF Len(mount_points) > 1
    THEN LastFound(Characters(mount_points[1]), [is_none |-> TRUE, value |-> <<>>])
    ELSE [is_none |-> FALSE, value |-> mount_points[1]]

\* os.path.join(a, b) for a relative b
Join(a, b) ==
    IF a = <<>> \/ a[Len(a)] = "/" THEN a \o b ELSE a \o <<"/">> \o b

INSTALLER_APP == <<"/", "I", ".", "a", "p", "p">>
SHARED_SUPPORT == <<"C", "o", "n", "t", "e", "n", "t", "s", "/", "S", "h",
                    "a", "r", "e", "d", "S", "u", "p", "p", "o", "r", "t">>
BASESYSTEM_DMG == <<"B", "a", "s", "e", "S", "y", "s", "t", "e", "m", ".",
                    "d", "m", "g">>
SYSTEM_VERSION_PLIST == "/System/Library/CoreServices/SystemVersion.plist"

\* the host versions, the mount-point lists of the mounted source image and
\* the ways the read of the version plist ends
HostVersions ==
    {<<"1", "0", ".", "9">>, <<"1", "0", ".", "9", ".", "5">>,
     V_10_10, <<"1", "0", ".", "1", "0", ".", "5">>,
     V_10_11, <<"1", "0", ".", "1", "1", ".", "6">>,
     V_10_12, <<"1", "0", ".", "1", "2", ".", "6">>,
     V_10_13, <<"1", "0", ".", "1", "3", ".", "1">>,
     <<"1", "0", ".", "1", "4">>, <<"1", "1", ".", "0">>}
SourceMountNames == {<<"/", "V", "/", "a">>, <<"/", "t", "/", "d", "m", "g">>}
SourceMountPoints ==
    {s \in SeqsUpTo(SourceMountNames, MaxEntities) :
        Len(s) >= 1 /\ Cardinality(Range(s)) = Len(s)}
ReadOutcomes == {"read", "IOError", "ExpatError"}

EnvCall(version, mount_points, is_high_sierra, isfile) ==
    [pc |-> "new", version |-> version, build |-> NoBuildEnvironment,
     source |-> mount_points, is_high_sierra |-> is_high_sierra,
     isfile |-> isfile, mount |-> [is_none |-> TRUE, value |-> <<>>],
     basesystem_dmg |-> <<>>, basesystem_mount_point |-> None,
     outcome |-> None, pending |-> NoError, ret |-> NoValue]

\* buildenv = BuildEnvironment(version)
NewBuildEnvironment ==
    /\ ev.pc = "new"
    /\ ev' = [ev EXCEPT !.pc = "source", !.build = BuildEnvironment(ev.version)]
    /\ UNCHANGED <<vars, elog, eerr>>

\* mount = source.dmg_mount_point
GetDmgMountPoint ==
    /\ ev.pc = "source"
    /\ ev' = [ev EXCEPT !.pc = "call", !.mount = DmgMountPoint(ev.source)]
    /\ UNCHANGED <<vars, elog, eerr>>

\* version_info up to the mount (lines 170-189): the path of the base-system
\* image, the isfile test and the new Dmg
VersionInfoCall ==
    LET from_source == DmgMountPoint(ev.source)
        basesystem_path == IF ev.is_high_sierra
                           THEN Join(INSTALLER_APP, SHARED_SUPPORT)
                           ELSE from_source.value
        basesystem_dmg == Join(basesystem_path, BASESYSTEM_DMG)
    IN  /\ ev.pc = "call"
        /\ elog' = elog
        /\ UNCHANGED <<prog, script_dmg, ctx, op, cmds, err, ret, attaches,
                       shadow_mounted>>
        /\ IF ~ev.is_high_sierra /\ from_source.is_none
           THEN \* os.path.join(None, 'BaseSystem.dmg')
                /\ eerr' = PyError("AttributeError")
                /\ ev' = [ev EXCEPT !.pc = "raised"]
                /\ UNCHANGED dmg
           ELSE IF ~ev.isfile
           THEN /\ eerr' = [type |-> "IOError", text |-> "Missing BaseSystem.dmg",
                            path |-> basesystem_dmg]
                /\ ev' = [ev EXCEPT !.pc = "raised",
                                    !.basesystem_dmg = basesystem_dmg]
                /\ UNCHANGED dmg
           ELSE /\ eerr' = NoError
                /\ ev' = [ev EXCEPT !.pc = "mount",
                                    !.basesystem_dmg = basesystem_dmg]
                /\ dmg' = NewDmg(basesystem_dmg)

\* basesystem.mount() and basesystem.mount_points[0] (lines 190-191)
VersionInfoMount(out) ==
    /\ ev.pc = "mount"
    /\ Mount(FALSE, out)
    /\ elog' = elog \o cmds'
    /\ IF err' # NoError
       THEN /\ eerr' = err'
            /\ ev' = [ev EXCEPT !.pc = "raised"]
       ELSE IF dmg'.mount_points.items = <<>>
       THEN /\ eerr' = PyError("IndexError")
            /\ ev' = [ev EXCEPT !.pc = "raised"]
       ELSE /\ eerr' = NoError
            /\ ev' = [ev EXCEPT !.pc = "read",
                        !.basesystem_mount_point = dmg'.mount_points.items[1]]

\* the error of line 204
CouldNotRead(mount_point) ==
    [type |-> "IOError", text |-> "Could not read",
     path |-> mount_point \o SYSTEM_VERSION_PLIST]

\* the try statement of lines 198-208 up to the end of its first unmount:
\* readPlist, then the unmount of the except clause when it raised IOError
\* and the unmount of the finally clause when it did not
VersionInfoRead(outcome, polite, force_rc) ==
    /\ ev.pc = "read"
    /\ Unmount(None, polite, force_rc)
    /\ elog' = elog \o cmds'
    /\ IF outcome = "IOError"
       THEN \* the raise of the except clause, or the error of its unmount,
            \* is pending while the finally clause runs
            /\ ev' = [ev EXCEPT !.pc = "finally", !.outcome = outcome,
                        !.pending = IF err' # NoError THEN err'
                                    ELSE CouldNotRead(ev.basesystem_mount_point)]
            /\ eerr' = NoError
       ELSE IF err' # NoError
       THEN /\ ev' = [ev EXCEPT !.pc = "raised", !.outcome = outcome]
            /\ eerr' = err'
       ELSE IF outcome = "read"
       THEN /\ ev' = [ev EXCEPT !.pc = "returned", !.outcome = outcome,
                        !.ret = [type |-> "tuple",
                                 value |-> <<"ProductUserVisibleVersion",
                                             "ProductBuildVersion",
                                             ev.basesystem_mount_point>>]]
            /\ eerr' = NoError
       ELSE /\ ev' = [ev EXCEPT !.pc = "raised", !.outcome = outcome]
            /\ eerr' = PyError(outcome)

\* the finally clause after the except clause ran (line 208): an error of
\* this unmount replaces the pending one
VersionInfoFinally(polite, force_rc) ==
    /\ ev.pc = "finally"
    /\ Unmount(None, polite, force_rc)
    /\ elog' = elog \o cmds'
    /\ ev' = [ev EXCEPT !.pc = "raised", !.pending = NoError]
    /\ eerr' = IF err' # NoError THEN err' ELSE ev.pending

EnvironmentAtRest ==
    /\ ev = [EnvCall(<<>>, <<>>, FALSE, FALSE) EXCEPT !.pc = "idle"]
    /\ elog = <<>>
    /\ eerr = NoError

-----------------------------------------------------------------------------

Init ==
    /\ prog \in {"hdiutil", "AutoNBI"}
    /\ dmg = NewDmg(NBI_DMG_PATH)
    /\ script_dmg = NewScriptDmg(INSTALLER_PATH)
    /\ ctx = NoCtx
    /\ op = "__init__"
    /\ cmds = <<>>
    /\ err = NoError
    /\ ret = NoValue
    /\ attaches = 0
    /\ shadow_mounted = FALSE
    /\ hshadow = None
    /\ PayloadAtRest
    /\ ModifyAtRest
    /\ ContentAtRest
    /\ DecompressAtRest
    /\ EnvironmentAtRest

\* a step of the Dmg objects leaves the payload and the pipeline alone
Apart == UNCHANGED <<pvars, mvars, cvars, dvars, evars>>
\* a method other than those of the scoped handle ends the history of it
Other == Apart /\ hshadow' = None

Next ==
    \/ Other /\ Idle
       /\ \E shadow \in BOOLEAN, out \in AttachOutcomes : Mount(shadow, out)
    \/ Other /\ Idle
       /\ \E mp \in {None} \cup MountPointNames, polite \in ProcOutcomes,
             force_rc \in ExitCodes :
            /\ (polite.returncode = 0 => force_rc = 0)
            /\ Unmount(mp, polite, force_rc)
    \/ Other /\ Idle
       /\ \E output \in ConvertOutputs, fmt \in ConvertFormats,
             out \in ProcOutcomes : Convert(output, fmt, out)
    \/ Other /\ Idle
       /\ \E shadow_file \in {None} \cup ShadowFiles, size \in {None, "8G"},
             sectors \in {None, "min"}, out \in ProcOutcomes :
            Resize(shadow_file, size, sectors, out)
    \/ Other /\ Idle /\ \E out \in LimitsOutcomes : ResizeLimits(out)
    \/ Other /\ Idle
       /\ \E limits_out \in LimitsOutcomes, resize_out \in ProcOutcomes :
            Shrink(limits_out, resize_out)
    \/ Other /\ Idle /\ \E value \in {None} \cup ShadowFiles : SetShadow(value)
    \/ Apart /\ Idle /\ \E writable \in BOOLEAN : DmgMounted(writable)
    \/ Apart /\ Idle
       /\ \E writable \in BOOLEAN, unmount \in BOOLEAN :
            NBIMounted(writable, unmount)
    \/ Apart /\ \E out \in AttachOutcomes : Enter(out)
    \/ Apart
       /\ \E exc \in {NoError, PyError("BodyError")}, polite \in ProcOutcomes,
             force_rc \in ExitCodes :
            /\ (polite.returncode = 0 => force_rc = 0)
            /\ Exit(exc, polite, force_rc)
    \/ Other
       /\ \E shadow \in BOOLEAN, out \in AttachOutcomes : ScriptMount(shadow, out)
    \/ Other
       /\ \E fmt \in ConvertFormats, output \in ConvertOutputs,
             out \in ProcOutcomes : ScriptConvert(fmt, output, out)
    \/ Other
       /\ \E use_shadow \in BOOLEAN, out \in AttachOutcomes :
            MountDmg(NBI_DMG_PATH, use_shadow, out)
    \/ Other
       /\ \E mountpoint \in MountPointNames, polite \in ProcOutcomes,
             force_rc \in ExitCodes :
            /\ (polite.returncode = 0 => force_rc = 0)
            /\ UnmountDmg(mountpoint, polite, force_rc)
    \/ Other
       /\ \E out \in ProcOutcomes :
            ConvertDmg(NBI_DMG_PATH, ShadowPathFor(NBI_DMG_PATH), out)
    \/ Other
       /\ \E mountpoint \in MountPointNames, out \in ProcOutcomes :
            ScriptRun(detach_dmg(mountpoint), out)

allvars == <<vars, pvars, mvars, cvars, dvars, evars, hvars>>

Spec == Init /\ [][Next]_allvars

-----------------------------------------------------------------------------
(* The run of processframeworkpayload on one extracted Payload *)

PayloadInit ==
    /\ prog = "processnbi"
    /\ dmg = NewDmg(NBI_DMG_PATH)
    /\ script_dmg = NewScriptDmg(INSTALLER_PATH)
    /\ ctx = NoCtx
    /\ op = "__init__"
    /\ cmds = <<>>
    /\ err = NoError
    /\ ret = NoValue
    /\ attaches = 0
    /\ shadow_mounted = FALSE
    /\ hshadow = None
    /\ pin \in {p \in PayloadInputs : ValidInput(p)}
    /\ fs = (PayloadSource :> Encode(pin.chunks, pin.fault, pin.k))
    /\ pz = PzCall
    /\ perr = NoError
    /\ plog = <<>>
    /\ ModifyAtRest
    /\ ContentAtRest
    /\ DecompressAtRest
    /\ EnvironmentAtRest

PayloadNext ==
    \/ ParseOpen /\ UNCHANGED <<vars, mvars, cvars, dvars, evars, hvars>>
    \/ ParseChunk /\ UNCHANGED <<vars, mvars, cvars, dvars, evars, hvars>>
    \/ ParseReturn /\ UNCHANGED <<vars, mvars, cvars, dvars, evars, hvars>>
    \/ AssembleFragment /\ UNCHANGED <<vars, mvars, cvars, dvars, evars, hvars>>
    \/ AssembleClose /\ UNCHANGED <<vars, mvars, cvars, dvars, evars, hvars>>
    \/ RenamePayload /\ UNCHANGED <<vars, mvars, cvars, dvars, evars, hvars>>

PayloadSpec == PayloadInit /\ [][PayloadNext]_allvars

-----------------------------------------------------------------------------
(* The run of processNBI.modify on a NetInstall image mounted by makerw *)

ModifyInit ==
    /\ prog = "AutoNBI"
    /\ dmg = NewDmg(NBI_DMG_PATH)
    /\ script_dmg = NewScriptDmg(INSTALLER_PATH)
    /\ ctx = NoCtx
    /\ op = "__init__"
    /\ cmds = <<>>
    /\ err = NoError
    /\ ret = NoValue
    /\ attaches = 0
    /\ shadow_mounted = FALSE
    /\ hshadow = None
    /\ PayloadAtRest
    /\ \E o \in ModifyOptions :
           mrun = [pc |-> IF ModifyBaseSystem(o) THEN "resize" ELSE "content",
                   opts |-> o,
                   files |-> {BaseSystemDmg(o), NBI_DMG_PATH, NbiShadow},
                   basesystemmountpoint |-> None]
    /\ mlog = <<>>
    /\ merr = NoError
    /\ ContentAtRest
    /\ DecompressAtRest
    /\ EnvironmentAtRest

ModifyNext ==
    \/ UNCHANGED <<vars, pvars, cvars, dvars, evars, hvars>> /\ \E out \in ProcOutcomes : ModifyResize(out)
    \/ UNCHANGED <<vars, pvars, cvars, dvars, evars, hvars>> /\ \E out \in AttachOutcomes : ModifyAttach(out)
    \/ UNCHANGED <<vars, pvars, cvars, dvars, evars, hvars>> /\ \E out \in ProcOutcomes : ModifyContent(out)
    \/ UNCHANGED <<vars, pvars, cvars, dvars, evars, hvars>>
       /\ \E polite \in ProcOutcomes, force_rc \in ExitCodes :
            /\ (polite.returncode = 0 => force_rc = 0)
            /\ ModifyDetach(polite, force_rc)
    \/ UNCHANGED <<vars, pvars, cvars, dvars, evars, hvars>> /\ \E out \in ProcOutcomes : ModifyConvertRW(out)
    \/ UNCHANGED <<vars, pvars, cvars, dvars, evars, hvars>>
       /\ \E limits \in LimitsOutcomes, out \in ProcOutcomes :
            ModifyShrink(limits, out)
    \/ UNCHANGED <<vars, pvars, cvars, dvars, evars, hvars>> /\ \E out \in ProcOutcomes : ModifyConvertRO(out)
    \/ UNCHANGED <<vars, pvars, cvars, dvars, evars, hvars>>
       /\ \E polite \in ProcOutcomes, force_rc \in ExitCodes :
            /\ (polite.returncode = 0 => force_rc = 0)
            /\ ModifyUnmountNBI(polite, force_rc)
    \/ UNCHANGED <<vars, pvars, cvars, dvars, evars, hvars>> /\ \E out \in ProcOutcomes : ModifySeal(out)

ModifySpec == ModifyInit /\ [][ModifyNext]_allvars

-----------------------------------------------------------------------------
(* The content block of processNBI.modify on a mounted image *)

AtRest ==
    /\ prog = "AutoNBI"
    /\ dmg = NewDmg(NBI_DMG_PATH)
    /\ script_dmg = NewScriptDmg(INSTALLER_PATH)
    /\ ctx = NoCtx
    /\ op = "__init__"
    /\ cmds = <<>>
    /\ err = NoError
    /\ ret = NoValue
    /\ attaches = 0
    /\ shadow_mounted = FALSE
    /\ hshadow = None

\* what may be at processdir before modify runs: nothing, a file, a
\* directory, or a symbolic link to nothing, to a file or to a directory
TreesBefore ==
    {[dest |-> d, target |-> t, src |-> s,
      orig |-> [dest |-> d, target |-> t]] :
        d \in {NoEntry, FileEntry, LinkEntry} \cup DirShapes,
        t \in {NoEntry, FileEntry} \cup DirShapes,
        s \in DirShapes}

ContentInit ==
    /\ AtRest
    /\ PayloadAtRest
    /\ ModifyAtRest
    /\ \E o \in ContentOptions :
           /\ crun = [pc |-> IF o.customfolder THEN "custom_remove"
                             ELSE AfterCustom(o),
                      opts |-> o, i |-> 1, j |-> 1, havepayload |-> <<>>,
                      archives |-> {}]
           /\ IF o.customfolder
              THEN /\ cfs \in TreesBefore
                   /\ (cfs.dest.kind # "link" => cfs.target = NoEntry)
              ELSE cfs = NoTrees
    /\ clog = <<>>
    /\ cerr = NoError
    /\ DecompressAtRest
    /\ EnvironmentAtRest

ContentNext ==
    \/ CustomRemove /\ UNCHANGED <<vars, pvars, mvars, dvars, evars, hvars>>
    \/ CustomCopy /\ UNCHANGED <<vars, pvars, mvars, dvars, evars, hvars>>
    \/ UNCHANGED <<vars, pvars, mvars, dvars, evars, hvars>>
       /\ \E xar_out \in ProcOutcomes, processed \in BOOLEAN,
             cpio_out \in ProcOutcomes :
            FrameworkPayload(xar_out, processed, cpio_out)
    \/ RemoveCached /\ UNCHANGED <<vars, pvars, mvars, dvars, evars, hvars>>

ContentSpec == ContentInit /\ [][ContentNext]_allvars

-----------------------------------------------------------------------------
(* One call of decompress(infile, outfile) *)

DecompressInit ==
    /\ AtRest
    /\ PayloadAtRest
    /\ ModifyAtRest
    /\ ContentAtRest
    /\ EnvironmentAtRest
    /\ \E file \in XzFiles : dz = DzCall(file)
    /\ dlog = <<>>
    /\ derr = NoError

DecompressNext ==
    \/ UNCHANGED <<vars, pvars, mvars, cvars, evars, hvars>>
       /\ \E init_result \in InitResults : DecompressOpen(init_result)
    \/ UNCHANGED <<vars, pvars, mvars, cvars, evars, hvars>>
       /\ \E c \in 0..BUFSIZ, p \in 0..BUFSIZ,
             result \in {LZMA_OK, LZMA_STREAM_END, LZMA_ERRORS.data,
                         LZMA_ERRORS.buf, LZMA_ERRORS.prog} :
            DecompressPass([c |-> c, p |-> p, result |-> result])

DecompressSpec == DecompressInit /\ [][DecompressNext]_allvars

\* the loop is the only thing the call does: it is not held up forever
DecompressFair == DecompressSpec /\ WF_allvars(DecompressNext)



-----------------------------------------------------------------------------
(* BuildEnvironment(version), source.dmg_mount_point and                    *)
(* source.version_info(is_high_sierra) on a mounted source image            *)

EnvironmentInit ==
    /\ AtRest
    /\ PayloadAtRest
    /\ ModifyAtRest
    /\ ContentAtRest
    /\ DecompressAtRest
    /\ \E version \in HostVersions, mount_points \in SourceMountPoints,
          is_high_sierra \in BOOLEAN, isfile \in BOOLEAN :
         ev = EnvCall(version, mount_points, is_high_sierra, isfile)
    /\ elog = <<>>
    /\ eerr = NoError

EnvironmentNext ==
    \/ NewBuildEnvironment /\ UNCHANGED <<pvars, mvars, cvars, dvars, hvars>>
    \/ GetDmgMountPoint /\ UNCHANGED <<pvars, mvars, cvars, dvars, hvars>>
    \/ VersionInfoCall /\ UNCHANGED <<pvars, mvars, cvars, dvars, hvars>>
    \/ UNCHANGED <<pvars, mvars, cvars, dvars, hvars>>
       /\ \E out \in AttachOutcomes : VersionInfoMount(out)
    \/ UNCHANGED <<pvars, mvars, cvars, dvars, hvars>>
       /\ \E outcome \in ReadOutcomes, polite \in ProcOutcomes,
             force_rc \in ExitCodes :
            /\ (polite.returncode = 0 => force_rc = 0)
            /\ VersionInfoRead(outcome, polite, force_rc)
    \/ UNCHANGED <<pvars, mvars, cvars, dvars, hvars>>
       /\ \E polite \in ProcOutcomes, force_rc \in ExitCodes :
            /\ (polite.returncode = 0 => force_rc = 0)
            /\ VersionInfoFinally(polite, force_rc)

EnvironmentSpec == EnvironmentInit /\ [][EnvironmentNext]_allvars

-----------------------------------------------------------------------------
(* Properties *)

HasFlag(c, flag) == \E i \in DOMAIN c : c[i] = flag
HasPair(c, flag, value) ==
    \E i \in DOMAIN c : i < Len(c) /\ c[i] = flag /\ c[i + 1] = value
IsDetach(c) == Len(c) >= 3 /\ c[1] = HDIUTIL /\ c[2] = "detach"
LastArg(c) == c[Len(c)]
MountPointsCleared(d) == d.mount_points.is_none \/ d.mount_points.items = <<>>

\* L is the list of the 'mount-point' values of P, in the order of P
ListsMountPoints(L, P) ==
    LET with_mp == {i \in DOMAIN P : "mount_point" \in DOMAIN P[i]}
    IN  /\ Len(L) = Cardinality(with_mp)
        /\ \E f \in [DOMAIN L -> with_mp] :
              /\ \A j, k \in DOMAIN L : j < k => f[j] < f[k]
              /\ \A k \in DOMAIN L : L[k] = P[f[k]].mount_point

\* C1: in every reachable state the Dmg's mount-point list is non-empty
\* exactly when the Dmg is mounted, and empty or None exactly when it is not.
C1_MountPointsIffMounted ==
    dmg.mounted <=> ~MountPointsCleared(dmg)

\* C2: when a MountedDMG that attached its image is released, __exit__ issues
\* a detach of that image's mount point if auto-unmount is enabled (whether
\* or not the body raised), and issues no command if it is disabled.
C2_ReleaseDetaches ==
    [][op' = "__exit__" =>
         IF ctx.unmount
         THEN \E i \in DOMAIN cmds' :
                 /\ IsDetach(cmds'[i].command)
                 /\ LastArg(cmds'[i].command) \in Range(ctx.mount_points)
         ELSE cmds' = <<>>]_vars

\* C2 witness: the body raised and __exit__ detached the image all the same
C2_Witness ==
    /\ op = "__exit__"
    /\ err.type = "BodyError"
    /\ Len(cmds) = 1
    /\ IsDetach(cmds[1].command)

\* C3: an unmount (Dmg.unmount or MountedDMG.__exit__) issues at most two
\* detach commands; the second one is issued exactly when the polite detach
\* exits non-zero, carries -force and names the same mount point; when the
\* forced detach exits non-zero too the call raises HDIUtilError.
C3_ForcedRetryOnce ==
    op \in {"unmount", "__exit__"} =>
        /\ Len(cmds) <= 2
        /\ \A i \in DOMAIN cmds : IsDetach(cmds[i].command)
        /\ Len(cmds) >= 1 =>
              cmds[1].command = <<HDIUTIL, "detach", cmds[1].command[3]>>
        /\ Len(cmds) = 2 <=> (Len(cmds) >= 1 /\ cmds[1].out.returncode # 0)
        /\ Len(cmds) = 2 =>
              cmds[2].command =
                  <<HDIUTIL, "detach", "-force", cmds[1].command[3]>>
        /\ (Len(cmds) = 2 /\ cmds[2].out.returncode # 0) =>
              err.type = "HDIUtilError"

\* C3 witness: an unmount whose polite and forced detach both failed
C3_Witness ==
    /\ op = "unmount"
    /\ Len(cmds) = 2
    /\ cmds[2].out.returncode # 0
    /\ err.type = "HDIUtilError"

\* C4: once Dmg.unmount has run to its end on a mounted Dmg (it returned, or
\* it raised because both detaches failed) the Dmg is unmounted and its
\* mount-point state is cleared.
C4_UnmountAlwaysResets ==
    [][(dmg.mounted /\ op' = "unmount" /\ err'.type \in {"None", "HDIUtilError"})
          => (~dmg'.mounted /\ MountPointsCleared(dmg'))]_vars

\* C5: Dmg.mount runs one attach; on a non-zero exit it raises HDIUtilError
\* with that command, exit status and stderr and the mounted flag is as
\* before; on a zero exit the Dmg is mounted and its mount-point list is the
\* mount points of the attach output, in order.
C5_MountOutcome ==
    [][op' = "mount" =>
         /\ Len(cmds') = 1
         /\ cmds'[1].out.returncode # 0 =>
               /\ err'.type = "HDIUtilError"
               /\ err'.command = cmds'[1].command
               /\ err'.return_code = cmds'[1].out.returncode
               /\ err'.stderr = cmds'[1].out.stderr
               /\ dmg'.mounted = dmg.mounted
         /\ cmds'[1].out.returncode = 0 =>
               /\ err' = NoError
               /\ dmg'.mounted
               /\ ~dmg'.mount_points.is_none
               /\ ListsMountPoints(dmg'.mount_points.items, cmds'[1].out.plist)
      ]_vars

\* C5 witness: a successful mount whose output lists two mount points
C5_Witness ==
    /\ op = "mount"
    /\ err = NoError
    /\ dmg.mounted
    /\ Len(cmds[1].out.plist) >= 2
    /\ Len(dmg.mount_points.items) = 2
    /\ dmg.mount_points.items[1] # dmg.mount_points.items[2]

\* C6: mount on a Dmg that is already mounted raises a state error without
\* running attach, so no Dmg is attached twice without an unmount in between.
C6_NoDoubleMount ==
    [][op' = "mount" =>
         /\ dmg.mounted => (err'.type = "StateError" /\ cmds' = <<>>)
         /\ attaches' <= 1]_vars

\* C7: the convert command (of hdiutil.Dmg and of the Dmg of AutoNBI.py)
\* contains '-shadow <path>' exactly when the Dmg's shadow is set when convert
\* is called, and <path> is that shadow.
C7_ConvertShadowArg ==
    [][op' \in {"convert", "AutoNBI.Dmg.convert"} =>
         LET c == cmds'[1].command
             shadow == IF op' = "convert" THEN dmg.shadow ELSE script_dmg.shadow
         IN  /\ (shadow # None) <=> HasFlag(c, "-shadow")
             /\ \A i \in DOMAIN c :
                   c[i] = "-shadow" => (i < Len(c) /\ c[i + 1] = shadow)
      ]_vars

\* C7 witness: convert ran on a Dmg whose shadow is not the one beside the image
C7_Witness ==
    /\ op = "convert"
    /\ dmg.shadow \in ShadowFiles
    /\ HasPair(cmds[1].command, "-shadow", dmg.shadow)

\* C8: convert leaves the receiver as it was; on a zero exit it returns a new
\* unmounted Dmg at the requested output path with no mount points and no
\* shadow; on a non-zero exit it raises HDIUtilError and returns nothing.
C8_ConvertFrame ==
    [][op' = "convert" =>
         /\ dmg' = dmg
         /\ cmds'[1].out.returncode = 0 =>
               /\ err' = NoError
               /\ ret'.type = "Dmg"
               /\ HasPair(cmds'[1].command, "-o", ret'.value.path)
               /\ ~ret'.value.mounted
               /\ ret'.value.mount_points.is_none
               /\ ret'.value.shadow = None
         /\ cmds'[1].out.returncode # 0 =>
               /\ err'.type = "HDIUtilError"
               /\ ret' = NoValue
      ]_vars

\* C8 witness: a successful convert of a mounted Dmg that has a shadow
C8_Witness ==
    /\ op = "convert"
    /\ ret.type = "Dmg"
    /\ dmg.mounted
    /\ dmg.shadow # None
    /\ ~MountPointsCleared(dmg)

\* C9: shrink first runs 'resize -limits'; if that fails nothing else runs;
\* otherwise it runs resize exactly once, with '-sectors min' and no '-size',
\* whatever the limits were.
C9_ShrinkUsesSectorsMin ==
    op = "shrink" =>
        /\ Len(cmds) >= 1
        /\ cmds[1].command = <<HDIUTIL, "resize", "-limits", dmg.path>>
        /\ cmds[1].out.returncode # 0 =>
              (Len(cmds) = 1 /\ err.type = "HDIUtilError")
        /\ cmds[1].out.returncode = 0 =>
              /\ Len(cmds) = 2
              /\ cmds[2].command[2] = "resize"
              /\ HasPair(cmds[2].command, "-sectors", "min")
              /\ ~HasFlag(cmds[2].command, "-size")
              /\ ~HasFlag(cmds[2].command, "-limits")

\* C9 witness: shrink resized after the limits query returned two values
C9_Witness ==
    /\ op = "shrink"
    /\ Len(cmds) = 2
    /\ Split(cmds[1].out.stdout, TAB) = << <<"2">>, <<"2">> >>

\* C10: in every reachable state the Dmg's shadow path is set exactly when the
\* image has been attached with a shadow at least once and the shadow has not
\* been discarded since.
C10_ShadowIffMountedWritable ==
    (dmg.shadow # None) <=> shadow_mounted

\* C23: a convert that follows the release of a handle that Dmg.mounted made
\* writable passes the shadow file of that mount as '-shadow'.
C23_ConvertFoldsHandleShadow ==
    [][(/\ op = "__exit__"
        /\ err = NoError
        /\ hshadow # None
        /\ op' = "convert")
       => HasPair(cmds'[1].command, "-shadow", hshadow)]_allvars

\* the shadow a Dmg d attaches with when shadow support is asked for: the one
\* it holds, or '<image file name>.shadow' beside the image when it holds none
ShadowToUse(d) == IF d.shadow # None THEN d.shadow ELSE ShadowPathFor(d.path)

\* C31: mount with shadow support on a Dmg whose shadow path is set passes
\* that path as '-shadow' and derives '<image>.shadow' only when none is set;
\* the handle that Dmg.mounted(writable) makes follows the same rule.
C31_MountReusesShadow ==
    [][/\ (op' = "mount" /\ HasFlag(cmds'[1].command, "-shadow")) =>
              /\ HasPair(cmds'[1].command, "-shadow", ShadowToUse(dmg))
              /\ dmg'.shadow = ShadowToUse(dmg)
       /\ (op' = "Dmg.mounted" /\ ctx'.shadow_path # None) =>
              ctx'.shadow_path = ShadowToUse(dmg)]_allvars

\* C32: unmount on a Dmg that is not mounted fails with a state error and
\* issues no detach command.
C32_UnmountNeedsMounted ==
    [][(op' = "unmount" /\ ~dmg.mounted) =>
           (err'.type = "StateError" /\ cmds' = <<>>)]_allvars

\* C35: a mount or a resize that fails because hdiutil exits non-zero leaves
\* the Dmg's shadow path, mount-point list and mounted flag as they were.
C35_FailedCallLeavesDmg ==
    [][(op' \in {"mount", "resize"} /\ err'.type = "HDIUtilError") =>
           /\ dmg'.shadow = dmg.shadow
           /\ dmg'.mount_points = dmg.mount_points
           /\ dmg'.mounted = dmg.mounted]_allvars

-----------------------------------------------------------------------------
(* Properties of parse_pbzx and processframeworkpayload *)

\* the container processframeworkpayload was handed
Container == Encode(pin.chunks, pin.fault, pin.k)
\* the run went through the pbzx branch and came to its end
Assembled == pin.payloadtype = "data" /\ pz.pc = "done"
\* parse_pbzx has just returned: nothing is assembled yet
JustParsed == pz.pc = "assemble" /\ pz.i = 1
LastTwo(s) == SubSeq(s, Len(s) - 1, Len(s))

\* C11: for every container the encoder builds from raw and compressed
\* chunks, the assembled archive is the concatenation of the chunks'
\* uncompressed contents, in order
C11_RoundTrip ==
    (Assembled /\ pin.fault = "none") => fs[CpioArchive] = Contents(pin.chunks)

HasBadFooter ==
    \E i \in DOMAIN pin.chunks :
        /\ pin.chunks[i].kind = "xz"
        /\ LastTwo(ChunkPayload(pin.chunks[i],
                                IF i = pin.k THEN pin.fault ELSE "none"))
               # XZ_FOOTER

RawThenCompressed ==
    /\ pin.payloadtype = "data" /\ pin.fault = "none"
    /\ Len(pin.chunks) = 2
    /\ pin.chunks[1].kind = "raw" /\ pin.chunks[2].kind = "xz"

\* C14 as stated: one raw chunk followed by one compressed chunk gives
\* exactly 2 fragment files, the raw bytes and then the compressed chunk
\* from its 6-byte magic on with its 2-byte footer removed
C14_TwoFragmentsFooterRemoved ==
    (RawThenCompressed /\ JustParsed)
        => LET stream == Compress(pin.chunks[2].data, "none")
           IN  /\ Len(pz.archivechunks) = 2
               /\ fs[pz.archivechunks[1]] = pin.chunks[1].data
               /\ SubSeq(fs[pz.archivechunks[2]], 1, 6) = XZ_MAGIC
               /\ fs[pz.archivechunks[2]] = SubSeq(stream, 1, Len(stream) - 2)

\* C14 amended: one raw chunk followed by one compressed chunk gives exactly
\* 3 fragment files: the compressed fragment opened before the loop, which
\* stays empty, the raw bytes, and the whole compressed chunk from its
\* 6-byte magic to its 2-byte footer
C14_ThreeFragmentsFooterKept ==
    (RawThenCompressed /\ JustParsed)
        => LET stream == Compress(pin.chunks[2].data, "none")
           IN  /\ Len(pz.archivechunks) = 3
               /\ Cardinality(Range(pz.archivechunks)) = 3
               /\ DOMAIN fs = Range(pz.archivechunks) \cup {CpioArchive}
               /\ fs[pz.archivechunks[1]] = <<>>
               /\ fs[pz.archivechunks[2]] = pin.chunks[1].data
               /\ SubSeq(fs[pz.archivechunks[3]], 1, 6) = XZ_MAGIC
               /\ fs[pz.archivechunks[3]] = stream
               /\ LastTwo(fs[pz.archivechunks[3]]) = XZ_FOOTER

C14_Witness ==
    /\ RawThenCompressed /\ JustParsed
    /\ Len(pin.chunks[1].data) >= 6

\* what a consumed fragment contributes: its decompressed content when it
\* is a compressed fragment that holds something, its content otherwise
Contribution(e) ==
    IF HasXz(e.path) /\ e.content # <<>> THEN Decode(e.content).data
    ELSE e.content
RECURSIVE Contributions(_)
Contributions(log) ==
    IF log = <<>> THEN <<>>
    ELSE Contribution(Head(log)) \o Contributions(Tail(log))

\* C15: the assembly loop takes the fragments in list order and the archive
\* is the concatenation, in that order, of the decompressed content of the
\* compressed fragments and the verbatim content of the raw ones
C15_AssemblyInListOrder ==
    (pin.payloadtype = "data" /\ pz.pc \in {"assemble", "done"})
        => /\ Len(plog) = pz.i - 1
           /\ \A j \in DOMAIN plog :
                  /\ plog[j].path = pz.archivechunks[j]
                  /\ plog[j].decoded = (HasXz(plog[j].path)
                                        /\ plog[j].content # <<>>)
           /\ fs[CpioArchive] = Contributions(plog)
           /\ pz.pc = "done" => Len(plog) = Len(pz.archivechunks)

C15_Witness ==
    /\ Assembled
    /\ Len(plog) = 3
    /\ plog[1].decoded /\ ~plog[2].decoded /\ ~HasXz(plog[2].path)
    /\ Contribution(plog[1]) # <<>> /\ Contribution(plog[2]) # <<>>
    /\ Contribution(plog[1]) # Contribution(plog[2])

\* C16: after processframeworkpayload completes on a chunked container no
\* fragment file of the parser and no temporary decompressed file exists,
\* with the xz tool as with the built-in decoder
C16_NoScratchFilesLeft ==
    Assembled
        => /\ \A j \in DOMAIN pz.archivechunks :
                  /\ ~Exists(fs, pz.archivechunks[j])
                  /\ ~Exists(fs, StripXz(pz.archivechunks[j]))
           /\ DOMAIN fs = {CpioArchive}

C16_Witness ==
    /\ Assembled
    /\ ~pin.xzexec
    /\ \E j \in DOMAIN plog : plog[j].decoded
    /\ \E j \in DOMAIN plog : ~HasXz(plog[j].path)
    /\ \E j \in DOMAIN plog : HasXz(plog[j].path) /\ plog[j].content = <<>>

-----------------------------------------------------------------------------
(* Properties of the helper functions of AutoNBI.py *)

HelperOps == {"mountdmg", "unmountdmg", "convertdmg", "run", "AutoNBI.Dmg.convert"}

\* the exception carries the command line, exit code and stderr of a run
Carries(e, run) ==
    /\ e # NoError
    /\ {"command", "return_code", "stderr"} \subseteq DOMAIN e
    /\ e.command = run.command
    /\ e.return_code = run.out.returncode
    /\ "stderr" \in DOMAIN run.out => e.stderr = run.out.stderr

\* C20: when the last platform command a helper of AutoNBI.py ran (mountdmg,
\* unmountdmg with its forced retry, convertdmg, run, Dmg.convert) exited
\* non-zero, the helper raised an error carrying the command line, the exit
\* code and stderr instead of returning
C20_HelperFailuresSurface ==
    (op \in HelperOps /\ cmds # <<>>
     /\ cmds[Len(cmds)].out.returncode # 0)
        => Carries(err, cmds[Len(cmds)]) /\ ret = NoValue

-----------------------------------------------------------------------------
(* Properties of processNBI.modify *)

BaseDmg == BaseSystemDmg(mrun.opts)
IsCmd(e, verb) == e.kind = "cmd" /\ e.command[2] = verb
\* a detach, polite or forced, of the base-system volume
IsBaseDetach(e) ==
    IsCmd(e, "detach") /\ LastArg(e.command) = mrun.basesystemmountpoint
\* a convert whose source is the base-system image
IsBaseConvert(e) == IsCmd(e, "convert") /\ LastArg(e.command) = BaseDmg
\* a content modification below the mount point of the base-system volume
IsBaseModify(e) ==
    /\ e.kind = "modify"
    /\ mrun.basesystemmountpoint # None
    /\ \E rest \in {"/private/etc/rc.install", "/System/Library/LaunchDaemons",
                    "/System/Installation/Packages", "/System/Library",
                    "/Utilities.plist", "/com.apple.VNCSettings.txt"} :
           e.path = mrun.basesystemmountpoint \o rest
Before(j, P(_)) == \E i \in 1..(j - 1) : P(mlog[i])
Resized8G(e) ==
    /\ IsCmd(e, "resize") /\ e.rc = 0
    /\ HasPair(e.command, "-size", "8G")
    /\ LastArg(e.command) = BaseDmg
AttachedOk(e) == IsCmd(e, "attach") /\ e.rc = 0

\* the order of the steps around the attach, whatever the attach is given
StepsInOrder ==
    \A j \in DOMAIN mlog :
        /\ IsCmd(mlog[j], "attach") => Before(j, Resized8G)
        /\ IsBaseModify(mlog[j]) =>
               Before(j, AttachedOk) /\ ~Before(j, IsBaseDetach)
        /\ IsBaseConvert(mlog[j]) => Before(j, IsBaseDetach)

\* C17: the base-system image is resized to 8G before it is attached, it is
\* attached with a shadow file, its content is modified after the attach
\* and before the detach, and the detach comes before any convert of it
C17_ResizeAttachModifyDetach ==
    /\ StepsInOrder
    /\ \A j \in DOMAIN mlog :
           IsCmd(mlog[j], "attach") =>
               /\ LastArg(mlog[j].command) = BaseDmg
               /\ HasPair(mlog[j].command, "-shadow", BaseSystemShadow)

\* the value that follows '-shadow' in a command line that has one
ShadowArg(c) == c[(CHOOSE i \in DOMAIN c : c[i] = "-shadow") + 1]

\* C33: the base-system image is attached with the image file as the source
\* of the attach and the shadow file as its '-shadow' argument, and that
\* shadow file is the one given to the resize before it and to the
\* conversion after it.
C33_AttachSourceAndSameShadow ==
    \A j \in DOMAIN mlog :
        IsCmd(mlog[j], "attach") =>
            /\ LastArg(mlog[j].command) = BaseDmg
            /\ HasFlag(mlog[j].command, "-shadow")
            /\ \A i \in DOMAIN mlog :
                   (Resized8G(mlog[i]) \/ (IsBaseConvert(mlog[i])
                                           /\ HasFlag(mlog[i].command, "-shadow")))
                       => /\ HasFlag(mlog[i].command, "-shadow")
                          /\ ShadowArg(mlog[i].command) = ShadowArg(mlog[j].command)

\* the entries of the log after the last detach of the base-system volume
AfterBaseDetach ==
    LET D == {j \in DOMAIN mlog : IsBaseDetach(mlog[j])}
        last == CHOOSE j \in D : \A i \in D : i <= j
    IN  IF D = {} THEN <<>> ELSE SubSeq(mlog, last + 1, Len(mlog))

\* the k-th step after the detach, as the pipeline is to perform it
SealStep(k, e, before) ==
    CASE k = 1 -> /\ IsCmd(e, "convert") /\ e.rc = 0
                  /\ HasPair(e.command, "-format", "UDRW")
                  /\ HasPair(e.command, "-shadow", BaseSystemShadow)
                  /\ HasPair(e.command, "-o", BaseSystemRW)
                  /\ LastArg(e.command) = BaseDmg
      [] k = 2 -> e = FileOp("remove", BaseDmg, None)
      [] k = 3 -> e.kind = "cmd"
                  /\ e.command = <<HDIUTIL, "resize", "-limits", BaseSystemRW>>
      [] k = 4 -> /\ IsCmd(e, "resize") /\ e.rc = 0
                  /\ e.command = <<HDIUTIL, "resize", "-size",
                                   Str(Head(Split(before.stdout, TAB))) \o "b",
                                   BaseSystemRW>>
      [] k = 5 -> /\ IsCmd(e, "convert") /\ e.rc = 0
                  /\ HasPair(e.command, "-format", "UDRO")
                  /\ ~HasFlag(e.command, "-shadow")
                  /\ HasPair(e.command, "-o", BaseSystemRO)
                  /\ LastArg(e.command) = BaseSystemRW
      [] k = 6 -> e = FileOp("copy", BaseSystemRO, BaseDmg)
      [] OTHER -> TRUE

\* the run came past the copy-back without an exception
PastCopyBack == mrun.pc \in {"unmount_nbi", "seal", "done"}

\* C18: after the detach of the base-system image a run that goes through
\* performs exactly: convert to UDRW with the shadow, delete the original,
\* shrink the intermediate to its minimal size, convert to UDRO, copy the
\* result to the original path; at its end an image is at that path again
C18_ConvertShrinkCopyBack ==
    (ModifyBaseSystem(mrun.opts) /\ PastCopyBack)
        => LET steps == AfterBaseDetach
           IN  /\ Len(steps) >= 6
               /\ \A k \in 1..6 :
                      SealStep(k, steps[k], IF k > 1 THEN steps[k - 1] ELSE steps[k])
               /\ \A k \in 7..Len(steps) :
                      ~IsCmd(steps[k], "resize") /\ ~IsBaseConvert(steps[k])
                      /\ steps[k].kind # "copy"
               /\ BaseDmg \in mrun.files

C18_Witness ==
    /\ mrun.pc = "done"
    /\ ModifyBaseSystem(mrun.opts)
    /\ \E j \in DOMAIN mlog :
           /\ mlog[j].kind = "cmd"
           /\ mlog[j].command = <<HDIUTIL, "resize", "-limits", BaseSystemRW>>
           /\ Len(Split(mlog[j].stdout, TAB)) > 1
           /\ Head(Split(mlog[j].stdout, TAB)) # <<>>
           /\ Split(mlog[j].stdout, TAB)[2] = <<>>

(***************************************************************************)
(* The two volumes of processNBI.modify: the base-system volume is mounted *)
(* from an image inside the NetInstall volume                              *)
(***************************************************************************)
IsNbiDetach(e) == IsCmd(e, "detach") /\ LastArg(e.command) = NBI_MOUNT
\* a detach that hdiutil reports as done
BaseDetached(e) == IsBaseDetach(e) /\ e.rc = 0
NbiDetached(e) == IsNbiDetach(e) /\ e.rc = 0
IsCopyBack(e) == e.kind = "copy" /\ e.to = BaseDmg
\* the steps that seal the outer image, lines 1378-1385
IsSealing(e) ==
    \/ IsCmd(e, "convert") /\ LastArg(e.command) = NBI_DMG_PATH
    \/ e.kind = "remove" /\ e.path \in {NbiShadow, NBI_DMG_PATH}
    \/ e.kind = "rename" /\ e.to = NBI_DMG_PATH

\* the order in which modify issues the steps, whatever they exit with
OuterStepsIssuedInOrder ==
    \A j \in DOMAIN mlog :
        /\ (IsNbiDetach(mlog[j]) /\ mrun.basesystemmountpoint # None
                /\ ModifyBaseSystem(mrun.opts))
               => Before(j, IsBaseDetach)
        /\ IsCopyBack(mlog[j]) => ~Before(j, IsNbiDetach)
        /\ IsSealing(mlog[j]) => Before(j, IsNbiDetach)

\* C37: the base-system volume is detached before the NetInstall volume is;
\* the re-sealed base-system image is copied back while the NetInstall
\* volume is still mounted; the outer image is converted, its shadow and
\* original removed and the result renamed only once the NetInstall volume
\* has been detached
C37_InnerDetachedThenOuterThenSeal ==
    \A j \in DOMAIN mlog :
        /\ (IsNbiDetach(mlog[j]) /\ mrun.basesystemmountpoint # None
                /\ ModifyBaseSystem(mrun.opts))
               => Before(j, BaseDetached)
        /\ IsCopyBack(mlog[j]) => ~Before(j, IsNbiDetach)
        /\ IsSealing(mlog[j]) => Before(j, NbiDetached)

\* C19: once a conversion of the pipeline has failed nothing is removed,
\* copied back or renamed: the image it was to convert and its shadow file
\* are still there
C19_FailedConvertAborts ==
    \A j \in DOMAIN mlog :
        (IsCmd(mlog[j], "convert") /\ mlog[j].rc # 0)
            => /\ \A i \in (j + 1)..Len(mlog) :
                      mlog[i].kind \notin {"remove", "copy", "rename"}
               /\ IsBaseConvert(mlog[j]) =>
                      {BaseDmg, BaseSystemShadow} \subseteq mrun.files
               /\ ~IsBaseConvert(mlog[j]) /\ HasPair(mlog[j].command, "-format", "UDSP")
                      => {NBI_DMG_PATH, NbiShadow} \subseteq mrun.files

\* C24: a run of processframeworkpayload that failed left the source payload
\* container on disk as it was, and the container is gone only when the
\* assembled archive is complete.
C24_SourceKeptUntilArchiveComplete ==
    /\ pz.pc = "failed" =>
           Exists(fs, PayloadSource) /\ fs[PayloadSource] = Container
    /\ (pz.pc \notin {"idle", "done"}) => Exists(fs, PayloadSource)

-----------------------------------------------------------------------------
(* Properties of the content block *)

\* C21: when the copy of the replacement tree starts, nothing is left at the
\* destination path, whatever was there (a directory, a file or a symbolic
\* link), and what a symbolic link pointed to is as it was.
C21_ExistingEntryRemovedBeforeCopy ==
    crun.pc = "custom_copy" =>
        /\ cfs.dest = NoEntry
        /\ cfs.target = cfs.orig.target

\* the entry of a table of modifications.py a version falls to
TableKey(version) ==
    IF version \in {"10.13", "10.12", "10.11"} THEN version ELSE "default"
FrameworkTable(framework) ==
    IF framework = "python" THEN Python_Framework ELSE Ruby_Framework

\* C22: for every framework name and OS version one payload spec resolves,
\* the version's own entry for 10.13, 10.12 and 10.11 and the default entry
\* otherwise; every pass of the frameworks loop works with that entry.
C22_OnePayloadSpecPerFrameworkAndVersion ==
    /\ \A osver \in OsVersions :
           /\ DOMAIN Payloads(osver) = {"python", "ruby"}
           /\ \A framework \in {"python", "ruby"} :
                  Payloads(osver)[framework]
                      = FrameworkTable(framework)[TableKey(VersionMajor(osver))]
    /\ \A k \in DOMAIN clog :
           clog[k].kind = "payload" =>
               LET own == FrameworkTable(clog[k].framework)
                              [TableKey(VersionMajor(crun.opts.osver))]
               IN  /\ clog[k].sourcepayloads = own.sourcepayloads
                   /\ clog[k].regex = own.regex
                   /\ clog[k].payload \in Range(own.sourcepayloads)

C22_Witness ==
    /\ crun.pc = "done"
    /\ crun.opts.osver = "ElCap"
    /\ \E k \in DOMAIN clog :
           /\ clog[k].kind = "payload"
           /\ clog[k].framework = "ruby"
           /\ clog[k].payload = "Essentials"
           /\ clog[k].cached

\* the payload of the pass of the frameworks loop that was logged last
LastPayload ==
    LET P == {k \in DOMAIN clog : clog[k].kind = "payload"}
    IN  clog[CHOOSE k \in P : \A i \in P : i <= k].payload
IsXarOf(e, payload) ==
    e.kind = "cmd" /\ Len(e.command) = 7
    /\ e.command = XarExtract(XarSource(payload))
IsCpio(e) == e.kind = "cmd" /\ Len(e.command) = 1

\* C36: in the frameworks loops every source package is extracted and
\* assembled at most once, every extraction of archive members reads an
\* assembled archive that exists at that moment, and after the loops every
\* cached archive has been removed.
C36_PayloadsCachedAndCleaned ==
    /\ \A payload \in {"Core", "Essentials", "BSD"} :
           Cardinality({k \in DOMAIN clog : IsXarOf(clog[k], payload)}) <= 1
    /\ (clog # <<>> /\ IsCpio(clog[Len(clog)])) =>
           CpioArchiveOf(LastPayload) \in crun.archives
    /\ crun.pc = "done" =>
           /\ crun.archives = {}
           /\ \A k \in DOMAIN crun.havepayload :
                  \E n \in DOMAIN clog :
                      clog[n] = FileOp("remove", crun.havepayload[k], None)

\* C36 witness: both frameworks came from one package, extracted once, used
\* twice and removed at the end
C36_Witness ==
    /\ crun.pc = "done"
    /\ crun.opts.enablepython /\ crun.opts.enableruby
    /\ Len(crun.havepayload) = 1
    /\ Cardinality({k \in DOMAIN clog : IsCpio(clog[k])}) = 2
    /\ \E k \in DOMAIN clog : clog[k].kind = "payload" /\ clog[k].cached

-----------------------------------------------------------------------------
(* Properties of decompress *)

Ended == dz.pc \in {"returned", "raised"}
LastCall == dlog[Len(dlog)]

\* C25: every call of the decoder is made with the run action while input
\* remains unread and with the finish action once the whole input file has
\* been loaded; for every input file, the empty one included, the finish
\* action is signalled unless the call has raised before, and the loop ends.
C25_RunThenFinishAndTerminates ==
    /\ [](\A k \in DOMAIN dlog :
              dlog[k].action = IF dlog[k].cursor < dlog[k].EOF
                               THEN LZMA_RUN ELSE LZMA_FINISH)
    /\ <>(dz.pc = "raised"
          \/ \E k \in DOMAIN dlog : dlog[k].action = LZMA_FINISH)
    /\ <>Ended

\* C26: when the initializer of the decoder reports a status other than OK,
\* decompress raises a format error before it reads any input and before
\* the decoder is called.
C26_InitFailureIsFormatError ==
    (dz.pc \notin {"idle", "call"} /\ dz.init_result # LZMA_OK) =>
        /\ dz.pc = "raised"
        /\ derr.type = "FormatError"
        /\ dz.cursor = 0
        /\ dlog = <<>>

\* C27: decompress returns only when the decoder reported end-of-stream; the
\* first status other than OK and end-of-stream is the last call's, and the
\* call has raised.
C27_SuccessOnlyAtStreamEnd ==
    /\ dz.pc = "returned" =>
           dlog # <<>> /\ LastCall.result = LZMA_STREAM_END /\ derr = NoError
    /\ \A k \in DOMAIN dlog :
           /\ k < Len(dlog) => dlog[k].result = LZMA_OK
           /\ dlog[k].result \notin {LZMA_OK, LZMA_STREAM_END} =>
                  /\ k = Len(dlog)
                  /\ dz.pc = "raised"
                  /\ derr = [type |-> "Exception", code |-> dlog[k].result]

\* C27 witness: the decoder reported a data error after calls that went well
C27_Witness ==
    /\ dz.pc = "raised"
    /\ Len(dlog) >= 2
    /\ LastCall.result = LZMA_ERRORS.data
    /\ dz.dec.total_out > 0

\* C28: when decompress returns, the output file holds the bytes the decoder
\* produced, in order and once each; the buffer was written out whenever it
\* was full and at end-of-stream, and no read or write was longer than BUFSIZ.
C28_OutputIsWhatTheDecoderProduced ==
    dz.pc = "returned" =>
        /\ dz.f_out = [n \in 1..dz.dec.total_out |-> n]
        /\ dz.dec.total_out = dz.file.out
        /\ LastCall.wrote # <<>>
        /\ \A k \in DOMAIN dlog :
               /\ dlog[k].full => dlog[k].wrote # <<>>
               /\ \A i \in DOMAIN dlog[k].read : dlog[k].read[i] <= BUFSIZ
               /\ \A i \in DOMAIN dlog[k].wrote : dlog[k].wrote[i] <= BUFSIZ

\* C28 witness: the output took more than one buffer, the last one not full
C28_Witness ==
    /\ dz.pc = "returned"
    /\ Len(dz.f_out) > BUFSIZ
    /\ LastCall.wrote # <<>>
    /\ LastCall.wrote[1] \in 1..(BUFSIZ - 1)

-----------------------------------------------------------------------------
(* Properties of the read pass of parse_pbzx *)

\* bit 24 of a flag word, the continuation bit of the container format
ContinuationSet(word) == (word \div (2 ^ 24)) % 2 = 1

HeaderRead == pz.flagwords # <<>>
LastFlagWord == pz.flagwords[Len(pz.flagwords)]

\* a further triple was read after every flag word but the last, and the
\* loop was left only on a flag word whose bit 24 is clear
TripleExactlyOnBit24 ==
    HeaderRead =>
        /\ pz.flags = LastFlagWord
        /\ \A k \in 1..(Len(pz.flagwords) - 1) : ContinuationSet(pz.flagwords[k])
        /\ pz.pc \in {"assemble", "done"} => ~ContinuationSet(LastFlagWord)

\* C29: the number of chunks parse_pbzx processes equals the number of
\* 8-byte flag words it reads, and it reads a further triple exactly when
\* bit 24 of the most recently read flag word is set.
C29_ChunksEqualFlagReads ==
    /\ HeaderRead => pz.chunks = Len(pz.flagwords)
    /\ TripleExactlyOnBit24

\* C29 as the code has it: the header holds one flag word of its own, so the
\* flag words read are the chunks processed and one more.
C29_ChunksAreFlagReadsAfterHeader ==
    /\ HeaderRead => Len(pz.flagwords) = pz.chunks + 1
    /\ ~HeaderRead => pz.chunks = 0
    /\ TripleExactlyOnBit24

\* C29 witness: the loop was left after two chunks
C29_Witness ==
    /\ pz.pc = "assemble"
    /\ pz.chunks = 2
    /\ Len(pz.flagwords) = 3

\* C30: no seekread call moves the position of f back by more than 6 bytes,
\* and the only calls that move it back are the one that goes back to where
\* the 6-byte lookahead of a raw chunk began and the one that reads again
\* the last 2 bytes of a compressed chunk.
C30_SingleForwardPass ==
    \A k \in DOMAIN pz.moves :
        LET m == pz.moves[k]
        IN  /\ m.prev - m.at <= 6
            /\ m.to >= m.at
            /\ m.at < m.prev =>
                   \/ /\ m.line = 228
                      /\ pz.moves[k - 1].line = 224
                      /\ m.at = pz.moves[k - 1].at
                   \/ /\ m.line = 248
                      /\ pz.moves[k - 1].line = 247
                      /\ m.at = m.prev - 2
                      /\ m.at >= pz.moves[k - 1].at
                      /\ m.to = m.prev

-----------------------------------------------------------------------------
(* Properties of BuildEnvironment and InstallSource *)

VersionInfoEnded == ev.pc \in {"returned", "raised"}
\* the polite detaches that version_info has run, one for every unmount
PoliteDetaches ==
    {k \in DOMAIN elog : Len(elog[k].command) = 3 /\ elog[k].command[2] = "detach"}

\* C34: version_info detaches the base-system image it mounted exactly once
\* on every path, and when the read of the version plist raised IOError the
\* error that reaches the caller is the IOError that names the plist.
C34_MountedThenDetachedOnce ==
    (VersionInfoEnded /\ ev.basesystem_mount_point # None) =>
        /\ Cardinality(PoliteDetaches) = 1
        /\ ev.outcome = "IOError" =>
               eerr = CouldNotRead(ev.basesystem_mount_point)

\* the bucket the claim gives a version: the highest of 10.13, 10.12 and
\* 10.11 that the version reaches, and 10.10 for every version below 10.11
BucketOf(version) ==
    LET v == LooseVersion(version)
    IN  IF Cmp(v, <<10, 13>>) >= 0 THEN "10.13"
        ELSE IF Cmp(v, <<10, 12>>) >= 0 THEN "10.12"
        ELSE IF Cmp(v, <<10, 11>>) >= 0 THEN "10.11"
        ELSE "10.10"

\* C38: BuildEnvironment gives every host version exactly one of the buckets
\* 10.13, 10.12, 10.11 and 10.10, so that build_exec_path and version_major
\* are defined: the highest bucket the version reaches, 10.10 below 10.11.
C38_EveryVersionHasBucket ==
    ev.pc \notin {"idle", "new"} =>
        /\ ev.build.assigned
        /\ ev.build.version_major = BucketOf(ev.version)
        /\ ev.build.build_exec_path = BUILD_EXEC_PATHS[BucketOf(ev.version)]

\* C39: dmg_mount_point returns one of the entries of the mount-point list
\* of the mounted source Dmg, however many entries the list has.
C39_MountPointIsAnEntry ==
    ev.pc \notin {"idle", "new", "source"} =>
        /\ ~ev.mount.is_none
        /\ ev.mount.value \in Range(ev.source)

====
